---- MODULE Spec2Model ----
(***************************************************************************)
(* Model of the Ancla Python SDK client (sdks/python/src/ancla).           *)
(*                                                                         *)
(* The client is a synchronous wrapper around one HTTP session.  The state *)
(* is the process environment, the constructor arguments, the fields the   *)
(* constructor sets, the session, the last request handed to the session   *)
(* and the outcome of the last method call.                                *)
(*                                                                         *)
(* Strings the code manipulates character by character (the server URL)    *)
(* are sequences of one-character strings; strings the code only tests for *)
(* emptiness or copies (API key, response text) are TLA+ strings.          *)
(***************************************************************************)
EXTENDS Integers, Sequences, FiniteSets, TLC

VARIABLES
    pc,             \* position of the calling program
    env_api_key,    \* os.environ["ANCLA_API_KEY"]  (optional string)
    env_server,     \* os.environ["ANCLA_SERVER"]   (optional char sequence)
    arg_api_key,    \* constructor argument api_key (optional string)
    arg_server,     \* constructor argument server  (optional char sequence)
    api_key,        \* self.api_key
    server,         \* self.server
    base_url,       \* base_url of self._client
    headers,        \* default headers of self._client
    session,        \* "none" | "open" | "closed": state of self._client
    calls,          \* number of client method calls made
    requests,       \* number of requests handed to self._client.request
    last_request,   \* the last request handed to self._client.request
    response,       \* what the transport answered to the last call
    outcome,        \* how the last client method call ended
    in_flight,      \* the client method waiting for the transport, or ""
    args,           \* the arguments of the last client method call
    pending,        \* exception leaving the body of the `with` block
    propagated,     \* exception that left the `with` statement
    \* scripts/enrich-openapi.py
    enrich_pc,      \* "idle" | "loaded" | "enriched" | "twice"
    spec_in,        \* the document as it was read, before enrich was called
    spec_arg,       \* the caller's document object, as it is now
    enriched,       \* what enrich(spec) returned
    enriched_again, \* what enrich(enriched) returned
    \* scripts/gen-api-docs.py, main
    docs_pc,        \* "idle" | "loaded" | "grouped" | "writing" | "done"
    openapi,        \* the document main loaded
    out_before,     \* the files of the output directory before the run
    out_files,      \* the files of the output directory now
    by_tag,         \* tag -> endpoints, after the grouping loop
    todo,           \* the tags the writing loop has still to visit
    count,          \* the page counter of the writing loop
    written,        \* the names of the files the writing loop wrote
    \* scripts/gen-api-docs.py, schema_to_json_example
    ex_pc,          \* "idle" | "running" | "done"
    ex_spec,        \* the document passed to the outermost call
    ex_schema,      \* the schema passed to the outermost call
    ex_stack,       \* the activations of schema_to_json_example, outermost first
    ex_result,      \* what the outermost call returned
    ex_log          \* depth, resolutions and result kind of finished activations

client_vars == <<pc, env_api_key, env_server, arg_api_key, arg_server,
                 api_key, server, base_url, headers, session, calls, requests,
                 last_request, response, outcome, in_flight, args, pending,
                 propagated>>

enrich_vars == <<enrich_pc, spec_in, spec_arg, enriched, enriched_again>>

docs_vars == <<docs_pc, openapi, out_before, out_files, by_tag, todo, count,
               written>>

example_vars == <<ex_pc, ex_spec, ex_schema, ex_stack, ex_result, ex_log>>

script_vars == <<enrich_vars, docs_vars, example_vars>>

vars == <<client_vars, script_vars>>

----------------------------------------------------------------------------
(* Bounds *)

MaxLen == 3      \* longest server string drawn as an input
MaxCalls == 2    \* client method calls per run

----------------------------------------------------------------------------
(* Python values *)

\* An optional string: None or a str.
PyNone == [none |-> TRUE, s |-> ""]
PyStr(x) == [none |-> FALSE, s |-> x]

\* bool(v) for an optional string.
Truthy(v) == ~v.none /\ v.s # ""

\* Python's `a or b`.
PyOrLast(a, b) == IF Truthy(b) THEN b ELSE a
PyOr(a, b) == IF Truthy(a) THEN a ELSE b

\* An optional character sequence (the server argument / variable).
NoSeq == [none |-> TRUE, s |-> <<>>]
SomeSeq(x) == [none |-> FALSE, s |-> x]
TruthySeq(v) == ~v.none /\ v.s # <<>>
PyOrSeq(a, b) == IF TruthySeq(a) THEN a ELSE b

\* str.rstrip("/"): removes every trailing "/".
RECURSIVE RStrip(_)
RStripOnce(s) ==
    IF s # <<>> /\ s[Len(s)] = "/" THEN SubSeq(s, 1, Len(s) - 1) ELSE s
RStrip(s) ==
    IF s # <<>> /\ s[Len(s)] = "/" THEN RStrip(SubSeq(s, 1, Len(s) - 1)) ELSE s

----------------------------------------------------------------------------
(* Constants of the client *)

_DEFAULT_SERVER ==
    <<"h","t","t","p","s",":","/","/","a","n","c","l","a",".","d","e","v">>

API_V1 == <<"/","a","p","i","/","v","1">>

----------------------------------------------------------------------------
(* Exceptions (ancla/exceptions.py) *)

SdkClasses ==
    {"AnclaError", "AuthenticationError", "NotFoundError",
     "ValidationError", "ServerError"}

\* The base class of each exception class the model raises.  Errors that do
\* not come from ancla.exceptions derive from Exception directly here.
BaseOf(cls) ==
    CASE cls = "AuthenticationError" -> "AnclaError"
      [] cls = "NotFoundError"       -> "AnclaError"
      [] cls = "ValidationError"     -> "AnclaError"
      [] cls = "ServerError"         -> "AnclaError"
      [] OTHER                       -> "Exception"

\* isinstance(exception of class cls, base): `except base` catches it.
IsInstance(cls, base) ==
    \/ cls = base
    \/ BaseOf(cls) = base
    \/ (cls # "Exception" /\ base = "Exception")

\* A typed record built by a model class: the class and its field values.
NoRecord == [cls |-> "", f |-> <<>>]

\* What a client method returns: None, one typed record or a list of them.
NoValue == [k |-> "none", rec |-> NoRecord, items |-> <<>>]
RecordValue(rec) == [k |-> "record", rec |-> rec, items |-> <<>>]
ListValue(recs) == [k |-> "list", rec |-> NoRecord, items |-> recs]

\* AnclaError.__init__(message, status_code, detail)
NewError(cls, message, status_code, detail) ==
    [message |-> message, status_code |-> status_code, detail |-> detail,
     kind |-> "raise", exc |-> cls, decoded |-> FALSE,
     value |-> NoValue]

NoStatus == -1   \* status_code = None

NoOutcome ==
    [message |-> "", status_code |-> NoStatus, detail |-> PyNone,
     kind |-> "none", exc |-> "", decoded |-> FALSE, value |-> NoValue]

Returned(decoded) ==
    [message |-> "", status_code |-> NoStatus, detail |-> PyNone,
     kind |-> "return", exc |-> "", decoded |-> decoded, value |-> NoValue]

ReturnedValue(v) ==
    [message |-> "", status_code |-> NoStatus, detail |-> PyNone,
     kind |-> "return", exc |-> "", decoded |-> TRUE, value |-> v]

----------------------------------------------------------------------------
(* JSON values *)

\* The records of responses, JSON values, outcomes, requests and arguments
\* list their fields in the order TLC keeps them in, so that a value shared
\* by several workers is never reordered in place.

\* A decoded JSON value: its kind and, by kind, the string, the integer, the
\* boolean, the object (a function from keys to values) or the list.
\* JInvalid stands for text that is not JSON.
JInvalid == [s |-> "", b |-> FALSE, k |-> "invalid", n |-> 0, o |-> <<>>, l |-> <<>>]
JNull == [s |-> "", b |-> FALSE, k |-> "null", n |-> 0, o |-> <<>>, l |-> <<>>]
JStr(x) == [s |-> x, b |-> FALSE, k |-> "string", n |-> 0, o |-> <<>>, l |-> <<>>]
JInt(x) == [s |-> "", b |-> FALSE, k |-> "int", n |-> x, o |-> <<>>, l |-> <<>>]
JBool(x) == [s |-> "", b |-> x, k |-> "bool", n |-> 0, o |-> <<>>, l |-> <<>>]
JObj(f) == [s |-> "", b |-> FALSE, k |-> "object", n |-> 0, o |-> f, l |-> <<>>]
JList(q) == [s |-> "", b |-> FALSE, k |-> "list", n |-> 0, o |-> <<>>, l |-> q]

\* dict.get(key) of a decoded object, for the keys whose values the bodies
\* below carry as strings: None when the key is absent or null.
GetStr(v, key) ==
    IF v.k = "object" /\ key \in DOMAIN v.o /\ v.o[key].k = "string"
    THEN PyStr(v.o[key].s)
    ELSE PyNone

----------------------------------------------------------------------------
(* HTTP responses *)

\* Response bodies.  `text` is response.text; `value` is what
\* response.json() yields for that text (JInvalid when decoding raises);
\* `json` is the kind of that value; `message` and `detail` are
\* body.get("message") and body.get("detail") of a decoded object.
Body(text, value) ==
    [message |-> GetStr(value, "message"),
     detail |-> GetStr(value, "detail"),
     value |-> value, text |-> text, json |-> value.k]

Bodies ==
    { Body("", JInvalid),
      Body("Internal Server Error", JInvalid),
      Body("{\"message\": ", JInvalid),
      Body("{\"message\": \"Invalid API key\"}",
           JObj("message" :> JStr("Invalid API key"))),
      Body("{\"detail\": \"Organization not found\"}",
           JObj("detail" :> JStr("Organization not found"))),
      Body("{\"message\": \"Rate limited\", \"detail\": \"retry later\"}",
           JObj("message" :> JStr("Rate limited")
                @@ "detail" :> JStr("retry later"))),
      Body("{\"message\": \"\", \"detail\": \"Name is required\"}",
           JObj("message" :> JStr("") @@ "detail" :> JStr("Name is required"))),
      Body("{\"error\": \"bad request\"}",
           JObj("error" :> JStr("bad request"))),
      Body("[\"bad request\"]", JList(<<JStr("bad request")>>)),
      Body("\"bad request\"", JStr("bad request")),
      Body("null", JNull) }

\* The response test_create_org mocks.
NewOrgPayload ==
    Body("{\"id\": \"org-new\", \"name\": \"NewOrg\", \"slug\": \"neworg\"}",
         JObj("id" :> JStr("org-new") @@ "name" :> JStr("NewOrg")
              @@ "slug" :> JStr("neworg")))

\* Bodies of successful responses: bare arrays, an {"items": [...]}
\* envelope and single objects, complete or with fields absent or unknown.
Payloads ==
    { Body("[]", JList(<<>>)),
      Body("[{\"id\": \"p-1\", \"name\": \"Web\", \"slug\": \"web\"}, {\"id\": \"p-2\", \"name\": \"Api\", \"slug\": \"api\"}]",
           JList(<<JObj("id" :> JStr("p-1") @@ "name" :> JStr("Web")
                        @@ "slug" :> JStr("web")),
                   JObj("id" :> JStr("p-2") @@ "name" :> JStr("Api")
                        @@ "slug" :> JStr("api"))>>)),
      Body("[{\"id\": \"p-1\", \"name\": \"Web\"}]",
           JList(<<JObj("id" :> JStr("p-1") @@ "name" :> JStr("Web"))>>)),
      Body("{\"items\": [{\"id\": \"img-1\", \"version\": 1}]}",
           JObj("items" :> JList(<<JObj("id" :> JStr("img-1")
                                        @@ "version" :> JInt(1))>>))),
      NewOrgPayload,
      Body("{\"id\": \"p-1\"}", JObj("id" :> JStr("p-1"))),
      Body("{\"name\": \"Web\", \"slug\": \"web\", \"color\": \"red\"}",
           JObj("name" :> JStr("Web") @@ "slug" :> JStr("web")
                @@ "color" :> JStr("red"))),
      Body("{\"image_id\": \"img-123\"}", JObj("image_id" :> JStr("img-123"))),
      Body("{\"build_id\": \"b-1\"}", JObj("build_id" :> JStr("b-1"))),
      Body("{}", JObj(<<>>)) }

Statuses == {200, 204, 302, 399, 400, 401, 403, 404, 422, 429, 499, 500, 503}

\* What the transport does with one request: it answers, or it fails
\* (DNS, connection refused, timeout) by raising its own error.
Answer(status, body) == [status |-> status, body |-> body, received |-> TRUE]
TransportFailure == [status |-> 0, body |-> Body("", JInvalid),
                     received |-> FALSE]
NoResponse == [status |-> -1, body |-> Body("", JInvalid), received |-> FALSE]
NetOutcomes ==
    {Answer(st, b) : st \in Statuses, b \in Bodies}
    \cup {Answer(200, b) : b \in Payloads}
    \cup {TransportFailure}

\* f"API request failed ({status})"
GenericMessage(status) == "API request failed (" \o ToString(status) \o ")"

\* The try/except of _raise_for_status: response.json() raises on text that
\* is not JSON, and body.get raises AttributeError on a decoded value that
\* is not an object; both land in `except Exception`.
DetailOfNoFallback(body) ==
    IF body.json = "object"
    THEN PyOr(body.message, body.detail)
    ELSE PyNone
DetailOf(body) ==
    IF body.json = "object"
    THEN PyOr(body.message, body.detail)
    ELSE IF body.text # "" THEN PyStr(body.text) ELSE PyNone

\* The status-code branches of _raise_for_status.
ErrorClassNo5xx(status) ==
    CASE status = 401 -> "AuthenticationError"
      [] status = 404 -> "NotFoundError"
      [] status = 422 -> "ValidationError"
      [] status > 500 -> "ServerError"
      [] OTHER        -> "AnclaError"
ErrorClass(status) ==
    CASE status = 401 -> "AuthenticationError"
      [] status = 404 -> "NotFoundError"
      [] status = 422 -> "ValidationError"
      [] status >= 500 -> "ServerError"
      [] OTHER         -> "AnclaError"

\* AnclaClient._raise_for_status(response): always raises.
RaiseForStatus(resp) ==
    LET detail  == DetailOf(resp.body)
        message == IF Truthy(detail) THEN detail.s
                   ELSE GenericMessage(resp.status)
    IN  NewError(ErrorClass(resp.status), message, resp.status, detail)

----------------------------------------------------------------------------
(* Client operations *)

\* The public methods of AnclaClient that perform a request.
Ops ==
    {"list_orgs", "get_org", "create_org", "update_org", "delete_org",
     "list_projects", "get_project", "create_project", "update_project",
     "delete_project",
     "list_apps", "get_app", "create_app", "update_app", "delete_app",
     "deploy_app", "scale_app",
     "list_config", "get_config", "set_config", "delete_config",
     "list_images", "get_image",
     "list_releases", "get_release", "create_release",
     "list_deployments", "get_deployment"}

\* The HTTP method each operation passes to _request.
OpMethod(op) ==
    CASE op \in {"list_orgs", "get_org", "list_projects", "get_project",
                 "list_apps", "get_app", "list_config", "get_config",
                 "list_images", "get_image", "list_releases", "get_release",
                 "list_deployments", "get_deployment"} -> "GET"
      [] op \in {"create_org", "create_project", "create_app", "deploy_app",
                 "scale_app", "set_config", "create_release"} -> "POST"
      [] op \in {"update_org", "update_project", "update_app"} -> "PATCH"
      [] op \in {"delete_org", "delete_project", "delete_app",
                 "delete_config"} -> "DELETE"

\* The operations that discard the response: they never call resp.json().
NoDecodeOps ==
    {"delete_org", "delete_project", "delete_app", "delete_config",
     "scale_app"}

\* AnclaClient._build_headers()
BuildHeadersAlways(key) == [h \in {"X-API-Key"} |-> key]
BuildHeaders(key) ==
    IF key # "" THEN [h \in {"X-API-Key"} |-> key] ELSE [h \in {} |-> ""]

----------------------------------------------------------------------------
(* Arguments, paths and request bodies *)

\* The arguments of a client method call.  org, project, app, key and id
\* are the identifiers interpolated into paths (the `slug` parameter of the
\* *_org, *_project and *_app methods is the identifier of that level); a
\* field the method does not take keeps the value it has in NoArgs.
NoArgs ==
    [value |-> "", key |-> "", org |-> "", project |-> "", app |-> "",
     id |-> "", name |-> "", platform |-> "", secret |-> FALSE,
     counts |-> <<>>, kwargs |-> <<>>]

\* The identifier parameters each method takes.
OpIdents(op) ==
    CASE op \in {"list_orgs", "create_org"} -> {}
      [] op \in {"get_org", "update_org", "delete_org", "list_projects",
                 "create_project"} -> {"org"}
      [] op \in {"get_project", "update_project", "delete_project",
                 "list_apps", "create_app"} -> {"org", "project"}
      [] op \in {"get_app", "update_app", "delete_app", "deploy_app",
                 "scale_app", "list_config", "list_images", "list_releases",
                 "list_deployments"} -> {"org", "project", "app"}
      [] op \in {"get_config", "set_config", "delete_config"} ->
           {"org", "project", "app", "key"}
      [] op \in {"get_image", "get_release", "create_release",
                 "get_deployment"} -> {"org", "project", "app", "id"}

\* The other parameters each method takes.
OpParams(op) ==
    CASE op \in {"create_org", "update_org", "create_project",
                 "update_project"} -> {"name"}
      [] op = "create_app" -> {"name", "platform"}
      [] op = "update_app" -> {"kwargs"}
      [] op = "scale_app" -> {"counts"}
      [] op = "set_config" -> {"value", "secret"}
      [] OTHER -> {}

\* The argument records of a call of op whose arguments are drawn from the
\* input sets u.
ArgsOf(op, u) ==
    LET ids == OpIdents(op)
        ps  == OpParams(op)
        pick(fld, used, values, unused) == IF fld \in used THEN values ELSE {unused}
    IN  { [value |-> v, key |-> k, org |-> o, project |-> p, app |-> a,
           id |-> i, name |-> n, platform |-> pl, secret |-> sc,
           counts |-> c, kwargs |-> kw] :
            o  \in pick("org", ids, u.orgs, ""),
            p  \in pick("project", ids, u.projects, ""),
            a  \in pick("app", ids, u.apps, ""),
            k  \in pick("key", ids, u.keys, ""),
            i  \in pick("id", ids, u.ids, ""),
            n  \in pick("name", ps, u.names, ""),
            pl \in pick("platform", ps, u.platforms, ""),
            v  \in pick("value", ps, u.values, ""),
            sc \in pick("secret", ps, BOOLEAN, FALSE),
            c  \in pick("counts", ps, u.counts, <<>>),
            kw \in pick("kwargs", ps, u.kwargs, <<>>) }

\* The arguments the tests call the methods with.
FixtureInputs ==
    [orgs |-> {"acme"}, projects |-> {"web"}, apps |-> {"api"},
     keys |-> {"DATABASE_URL"}, ids |-> {"img-1"},
     names |-> {"NewOrg"}, platforms |-> {"docker"},
     values |-> {"postgres://db"},
     counts |-> {"web" :> JInt(2) @@ "worker" :> JInt(1)},
     kwargs |-> {"name" :> JStr("Renamed")}]

\* Arguments that exercise path building: empty identifiers and
\* identifiers containing "/", empty and non-empty mappings.
AllInputs ==
    [orgs |-> {"", "a", "a/b"}, projects |-> {"", "b"}, apps |-> {"c", "c/k"},
     keys |-> {"", "k"}, ids |-> {"7", "8"},
     names |-> {"", "NewOrg"}, platforms |-> {"docker"}, values |-> {"v"},
     counts |-> {<<>>, "web" :> JInt(0),
                 "web" :> JInt(2) @@ "worker" :> JInt(1)},
     kwargs |-> {<<>>, "name" :> JStr("Renamed")}]

\* The path templates of the resources.
ORGANIZATIONS_NoSlash == "/organizations"
ORGANIZATIONS == "/organizations/"

\* get_deployment(org, project, app, deployment_id) builds its path from
\* deployment_id alone.
DeploymentDetailPathScoped(a) ==
    "/deployments/" \o a.org \o "/" \o a.project \o "/" \o a.app \o "/"
    \o a.id \o "/detail"
DeploymentDetailPath(a) == "/deployments/" \o a.id \o "/detail"

\* The path each method passes to _request (the f-strings of client.py).
Path(op, a) ==
    CASE op \in {"list_orgs", "create_org"} -> ORGANIZATIONS
      [] op \in {"get_org", "update_org", "delete_org"} ->
           ORGANIZATIONS \o a.org
      [] op \in {"list_projects", "create_project"} -> "/projects/" \o a.org
      [] op \in {"get_project", "update_project", "delete_project"} ->
           "/projects/" \o a.org \o "/" \o a.project
      [] op \in {"list_apps", "create_app"} ->
           "/applications/" \o a.org \o "/" \o a.project
      [] op \in {"get_app", "update_app", "delete_app"} ->
           "/applications/" \o a.org \o "/" \o a.project \o "/" \o a.app
      [] op = "deploy_app" ->
           "/applications/" \o a.org \o "/" \o a.project \o "/" \o a.app
           \o "/deploy"
      [] op = "scale_app" ->
           "/applications/" \o a.org \o "/" \o a.project \o "/" \o a.app
           \o "/scale"
      [] op \in {"list_config", "set_config"} ->
           "/configurations/" \o a.org \o "/" \o a.project \o "/" \o a.app
      [] op \in {"get_config", "delete_config"} ->
           "/configurations/" \o a.org \o "/" \o a.project \o "/" \o a.app
           \o "/" \o a.key
      [] op = "list_images" ->
           "/images/" \o a.org \o "/" \o a.project \o "/" \o a.app
      [] op = "get_image" ->
           "/images/" \o a.org \o "/" \o a.project \o "/" \o a.app
           \o "/" \o a.id
      [] op = "list_releases" ->
           "/releases/" \o a.org \o "/" \o a.project \o "/" \o a.app
      [] op = "get_release" ->
           "/releases/" \o a.org \o "/" \o a.project \o "/" \o a.app
           \o "/" \o a.id
      [] op = "create_release" ->
           "/releases/" \o a.org \o "/" \o a.project \o "/" \o a.app
           \o "/create"
      [] op = "list_deployments" ->
           "/deployments/" \o a.org \o "/" \o a.project \o "/" \o a.app
      [] op = "get_deployment" -> DeploymentDetailPath(a)

\* The json= argument each method passes to _request: JNull stands for
\* json=None (no body).
ScaleBodyFlat(a) == JObj(a.counts)
ScaleBody(a) == JObj("process_counts" :> JObj(a.counts))

CreateOrgBody(a) == JObj("name" :> JStr(a.name))

JsonBody(op, a) ==
    CASE op = "create_org" -> CreateOrgBody(a)
      [] op \in {"update_org", "create_project", "update_project"} ->
           JObj("name" :> JStr(a.name))
      [] op = "create_app" ->
           JObj("name" :> JStr(a.name) @@ "platform" :> JStr(a.platform))
      [] op = "update_app" -> JObj(a.kwargs)
      [] op = "scale_app" -> ScaleBody(a)
      [] op = "set_config" ->
           JObj("name" :> JStr(a.key) @@ "value" :> JStr(a.value)
                @@ "secret" :> JBool(a.secret))
      [] op = "create_release" -> JObj("image_id" :> JStr(a.id))
      [] OTHER -> JNull

NoRequest ==
    [headers |-> [h \in {} |-> ""], json |-> JNull, op |-> "", method |-> "",
     path |-> ""]

\* AnclaClient._request, first half: the requests it hands to the session.
\* There is one self._client.request call and no loop around it.
SentTwice(op, a, hdrs) ==
    <<[headers |-> hdrs, json |-> JsonBody(op, a), op |-> op,
       method |-> OpMethod(op), path |-> Path(op, a)],
      [headers |-> hdrs, json |-> JsonBody(op, a), op |-> op,
       method |-> OpMethod(op), path |-> Path(op, a)]>>
Sent(op, a, hdrs) ==
    <<[headers |-> hdrs, json |-> JsonBody(op, a), op |-> op,
       method |-> OpMethod(op), path |-> Path(op, a)]>>

\* AnclaClient._request, second half: how it ends, given what the transport
\* did (`net`).  A transport error is not caught; a status >= 400 goes to
\* _raise_for_status; anything else is returned to the method.
RequestLenient(net) ==
    IF ~net.received
    THEN NewError("TransportError", "", NoStatus, PyNone)
    ELSE IF net.status > 400 THEN RaiseForStatus(net)
    ELSE Returned(FALSE)
Request(net) ==
    IF ~net.received
    THEN NewError("TransportError", "", NoStatus, PyNone)
    ELSE IF net.status >= 400 THEN RaiseForStatus(net)
    ELSE Returned(FALSE)

----------------------------------------------------------------------------
(* Record types (ancla/models.py) *)

\* The classes ancla/models.py defines.
DefinedModels ==
    {"WorkspaceMember", "Workspace", "Project", "Environment", "Service",
     "Build", "BuildList", "Deploy", "DeployLog", "DeployList", "ConfigVar",
     "StageStatus", "PipelineStatus", "DeployResult", "ScaleResult",
     "BuildResult"}

\* The names client.py imports from ancla.models, the names the package
\* exports (__all__ of ancla/__init__.py, exceptions and client left out),
\* and the model name the test-suite imports from the package.
ClientImports ==
    {"App", "ConfigVar", "CreateReleaseResult", "Deployment",
     "DeployReleaseResult", "DeployResult", "Image", "ImageList", "Org",
     "Project", "Release", "ReleaseList"}
PackageExports ==
    {"Build", "BuildList", "BuildResult", "ConfigVar", "Deploy", "DeployList",
     "DeployLog", "DeployResult", "Environment", "PipelineStatus", "Project",
     "ScaleResult", "Service", "StageStatus", "Workspace", "WorkspaceMember"}
TestImports == {"Org"}

\* A field declared without a default is required; the others carry their
\* default value.
Req == [required |-> TRUE, default |-> JNull]
Opt(d) == [required |-> FALSE, default |-> d]

\* The fields each class declares.
ModelFields(cls) ==
    CASE cls = "WorkspaceMember" ->
           "username" :> Req @@ "email" :> Req @@ "admin" :> Opt(JBool(FALSE))
      [] cls = "Workspace" ->
           "id" :> Opt(JStr("")) @@ "name" :> Req @@ "slug" :> Req
           @@ "member_count" :> Opt(JInt(0)) @@ "project_count" :> Opt(JInt(0))
           @@ "service_count" :> Opt(JInt(0)) @@ "members" :> Opt(JList(<<>>))
      [] cls = "Project" ->
           "id" :> Opt(JStr("")) @@ "name" :> Req @@ "slug" :> Req
           @@ "workspace_slug" :> Opt(JStr(""))
           @@ "workspace_name" :> Opt(JStr(""))
           @@ "service_count" :> Opt(JInt(0)) @@ "created" :> Opt(JStr(""))
           @@ "updated" :> Opt(JStr(""))
      [] cls = "Environment" ->
           "id" :> Opt(JStr("")) @@ "name" :> Req @@ "slug" :> Req
           @@ "service_count" :> Opt(JInt(0)) @@ "created" :> Opt(JStr(""))
      [] cls = "Service" ->
           "id" :> Opt(JStr("")) @@ "name" :> Req @@ "slug" :> Req
           @@ "platform" :> Opt(JStr(""))
           @@ "github_repository" :> Opt(JStr(""))
           @@ "auto_deploy_branch" :> Opt(JStr(""))
           @@ "process_counts" :> Opt(JObj(<<>>))
      [] cls = "Build" ->
           "id" :> Opt(JStr("")) @@ "version" :> Opt(JInt(0))
           @@ "built" :> Opt(JBool(FALSE)) @@ "error" :> Opt(JBool(FALSE))
           @@ "created" :> Opt(JStr(""))
      [] cls = "BuildList" -> "items" :> Opt(JList(<<>>))
      [] cls = "Deploy" ->
           "id" :> Opt(JStr("")) @@ "complete" :> Opt(JBool(FALSE))
           @@ "error" :> Opt(JBool(FALSE)) @@ "error_detail" :> Opt(JStr(""))
           @@ "job_id" :> Opt(JStr("")) @@ "created" :> Opt(JStr(""))
           @@ "updated" :> Opt(JStr(""))
      [] cls = "DeployLog" ->
           "status" :> Opt(JStr("")) @@ "log_text" :> Opt(JStr(""))
      [] cls = "DeployList" -> "items" :> Opt(JList(<<>>))
      [] cls = "ConfigVar" ->
           "id" :> Opt(JStr("")) @@ "name" :> Req @@ "value" :> Opt(JStr(""))
           @@ "secret" :> Opt(JBool(FALSE)) @@ "buildtime" :> Opt(JBool(FALSE))
      [] cls = "StageStatus" -> "status" :> Opt(JStr(""))
      [] cls = "PipelineStatus" ->
           "build" :> Opt(JNull) @@ "deploy" :> Opt(JNull)
      [] cls = "DeployResult" -> "build_id" :> Opt(JStr(""))
      [] cls = "ScaleResult" -> <<>>
      [] cls = "BuildResult" ->
           "build_id" :> Opt(JStr("")) @@ "version" :> Opt(JInt(0))

\* The class of the items of an envelope class (items: list[...]).
ItemModel(cls) ==
    CASE cls = "BuildList" -> "Build"
      [] cls = "DeployList" -> "Deploy"
      [] OTHER -> ""

\* The name each method validates the response against, as client.py
\* writes it ("" for the methods that discard the response).
OpModel(op) ==
    CASE op \in {"list_orgs", "get_org", "create_org", "update_org"} -> "Org"
      [] op \in {"list_projects", "get_project", "create_project",
                 "update_project"} -> "Project"
      [] op \in {"list_apps", "get_app", "create_app", "update_app"} -> "App"
      [] op = "deploy_app" -> "DeployResult"
      [] op \in {"list_config", "get_config", "set_config"} -> "ConfigVar"
      [] op = "list_images" -> "ImageList"
      [] op = "get_image" -> "Image"
      [] op = "list_releases" -> "ReleaseList"
      [] op = "get_release" -> "Release"
      [] op = "create_release" -> "CreateReleaseResult"
      [] op \in {"list_deployments", "get_deployment"} -> "Deployment"
      [] OTHER -> ""

\* How each method reads the decoded value: a comprehension over a bare
\* array ("list"), the items of an envelope ("items"), one object
\* ("record"), or not at all ("none").
OpShape(op) ==
    CASE op \in {"list_orgs", "list_projects", "list_apps", "list_config",
                 "list_deployments"} -> "list"
      [] op \in {"list_images", "list_releases"} -> "items"
      [] op \in {"delete_org", "delete_project", "delete_app",
                 "delete_config", "scale_app"} -> "none"
      [] OTHER -> "record"

\* cls.model_validate(v): v must be an object carrying every required
\* field; a field absent from v takes its default, a key the class does not
\* declare is ignored.  (The values drawn for declared fields have the
\* declared type, so no type error is modelled.)
ValidateNoRequired(cls, v) ==
    IF v.k # "object"
    THEN [ok |-> FALSE, rec |-> NoRecord]
    ELSE [ok |-> TRUE,
          rec |-> [cls |-> cls,
                   f |-> [fld \in DOMAIN ModelFields(cls) |->
                            IF fld \in DOMAIN v.o THEN v.o[fld]
                            ELSE ModelFields(cls)[fld].default]]]
ModelValidate(cls, v) ==
    IF v.k # "object"
    THEN [ok |-> FALSE, rec |-> NoRecord]
    ELSE IF \E fld \in DOMAIN ModelFields(cls) :
               ModelFields(cls)[fld].required /\ fld \notin DOMAIN v.o
    THEN [ok |-> FALSE, rec |-> NoRecord]
    ELSE [ok |-> TRUE,
          rec |-> [cls |-> cls,
                   f |-> [fld \in DOMAIN ModelFields(cls) |->
                            IF fld \in DOMAIN v.o THEN v.o[fld]
                            ELSE ModelFields(cls)[fld].default]]]

\* [cls.model_validate(item) for item in items]
ValidateAll(cls, items) ==
    LET rs == [i \in 1..Len(items) |-> ModelValidate(cls, items[i])]
    IN  IF \A i \in 1..Len(items) : rs[i].ok
        THEN [ok |-> TRUE, recs |-> [i \in 1..Len(items) |-> rs[i].rec]]
        ELSE [ok |-> FALSE, recs |-> <<>>]

PydanticError == NewError("pydantic.ValidationError", "", NoStatus, PyNone)

\* The body of a client method after _request returned: delete_* and
\* scale_app return None at once; the others call resp.json() and validate
\* the value against the name client.py imported from ancla.models.  A name
\* models.py does not define cannot be bound (the import of it fails).
\* No failure here is an error of ancla.exceptions.
Decode(op, body) ==
    LET cls == OpModel(op)
        v   == body.value
    IN  IF OpShape(op) = "none" THEN Returned(FALSE)
        ELSE IF cls \notin DefinedModels
        THEN NewError("ImportError", "", NoStatus, PyNone)
        ELSE IF body.json = "invalid"
        THEN NewError("JSONDecodeError", "", NoStatus, PyNone)
        ELSE IF OpShape(op) = "record"
        THEN LET r == ModelValidate(cls, v)
             IN  IF r.ok THEN ReturnedValue(RecordValue(r.rec))
                 ELSE PydanticError
        ELSE IF OpShape(op) = "list"
        THEN IF v.k = "list"
             THEN LET r == ValidateAll(cls, v.l)
                  IN  IF r.ok THEN ReturnedValue(ListValue(r.recs))
                      ELSE PydanticError
             ELSE IF (v.k = "object" /\ DOMAIN v.o = {})
                     \/ (v.k = "string" /\ v.s = "")
             THEN ReturnedValue(ListValue(<<>>))
             ELSE IF v.k \in {"object", "string"} THEN PydanticError
             ELSE NewError("TypeError", "", NoStatus, PyNone)
        ELSE LET r == ModelValidate(cls, v)
             IN  IF r.ok /\ r.rec.f["items"].k = "list"
                 THEN LET q == ValidateAll(ItemModel(cls), r.rec.f["items"].l)
                      IN  IF q.ok THEN ReturnedValue(ListValue(q.recs))
                          ELSE PydanticError
                 ELSE PydanticError

\* How a whole client method call ends.
MethodResultWrapsTransport(op, net) ==
    LET r == Request(net)
    IN  IF r.kind = "raise"
        THEN IF r.exc = "TransportError"
             THEN NewError("AnclaError", "", NoStatus, PyNone)
             ELSE r
        ELSE Decode(op, net.body)
MethodResult(op, net) ==
    LET r == Request(net)
    IN  IF r.kind = "raise" THEN r ELSE Decode(op, net.body)

----------------------------------------------------------------------------
(* Construction *)

\* self.api_key = api_key or os.environ.get("ANCLA_API_KEY", "")
ResolveApiKey(arg, env) ==
    IF Truthy(arg) THEN arg.s ELSE IF env.none THEN "" ELSE env.s

\* self.server = (server or os.environ.get("ANCLA_SERVER")
\*                or _DEFAULT_SERVER).rstrip("/")
ResolveServerEnvFirst(arg, env) ==
    RStrip(PyOrSeq(PyOrSeq(env, arg), SomeSeq(_DEFAULT_SERVER)).s)
ResolveServer(arg, env) ==
    RStrip(PyOrSeq(PyOrSeq(arg, env), SomeSeq(_DEFAULT_SERVER)).s)

\* Inputs: server strings over a two-letter alphabet, so that every
\* arrangement of trailing slashes up to MaxLen occurs.
Alphabet == {"h", "/"}
Strings(n) == UNION {[1..k -> Alphabet] : k \in 0..n}

ServerValues == {NoSeq} \cup {SomeSeq(x) : x \in Strings(MaxLen)}
KeyArgs == {PyNone, PyStr(""), PyStr("explicit-key")}
KeyEnvs == {PyNone, PyStr(""), PyStr("env-key")}

\* The configurations the calling specification runs with: the key and the
\* server of the test fixture, or none, with or without a key in the
\* environment.
FixtureKeyArgs == {PyNone, PyStr("test-key-abc123")}
FixtureKeyEnvs == {PyNone, PyStr("env-key")}
FixtureServers == {SomeSeq(<<"h", "/">>)}

\* No script has been started.
ScriptsIdle ==
    /\ enrich_pc = "idle"
    /\ spec_in = JNull
    /\ spec_arg = JNull
    /\ enriched = JNull
    /\ enriched_again = JNull
    /\ docs_pc = "idle"
    /\ openapi = JNull
    /\ out_before = <<>>
    /\ out_files = <<>>
    /\ by_tag = <<>>
    /\ todo = <<>>
    /\ count = 0
    /\ written = {}
    /\ ex_pc = "idle"
    /\ ex_spec = JNull
    /\ ex_schema = JNull
    /\ ex_stack = <<>>
    /\ ex_result = JNull
    /\ ex_log = {}

\* The program before the client exists, with a given environment.
Start(keyEnvs, serverEnvs) ==
    /\ pc = "start"
    /\ env_api_key \in keyEnvs
    /\ env_server \in serverEnvs
    /\ arg_api_key = PyNone
    /\ arg_server = NoSeq
    /\ api_key = ""
    /\ server = <<>>
    /\ base_url = <<>>
    /\ headers = [h \in {} |-> ""]
    /\ session = "none"
    /\ calls = 0
    /\ requests = 0
    /\ last_request = NoRequest
    /\ response = NoResponse
    /\ in_flight = ""
    /\ args = NoArgs
    /\ outcome = NoOutcome
    /\ pending = NoOutcome
    /\ propagated = NoOutcome
    /\ ScriptsIdle

\* AnclaClient.__init__(api_key, server)
Construct(k, s) ==
    /\ pc = "start"
    /\ pc' = "ready"
    /\ arg_api_key' = k
    /\ arg_server' = s
    /\ api_key' = ResolveApiKey(k, env_api_key)
    /\ server' = ResolveServer(s, env_server)
    /\ base_url' = server' \o API_V1
    /\ headers' = BuildHeaders(api_key')
    /\ session' = "open"
    /\ UNCHANGED <<env_api_key, env_server, calls, requests, last_request,
                   response, outcome, in_flight, args, pending, propagated>>
    /\ UNCHANGED script_vars

----------------------------------------------------------------------------
(* Session lifetime *)

\* AnclaClient.close(): closes self._client.
CloseSession(sess) == "closed"

\* AnclaClient.__exit__(*args): closes and returns None, so the exception
\* that left the block, if any, is not suppressed.
ExitSwallow(sess) == [session |-> CloseSession(sess), suppress |-> TRUE]
AnclaExit(sess) == [session |-> CloseSession(sess), suppress |-> FALSE]

\* client.close()
Close ==
    /\ pc = "ready"
    /\ in_flight = ""
    /\ session = "open"
    /\ session' = CloseSession(session)
    /\ UNCHANGED <<pc, env_api_key, env_server, arg_api_key, arg_server,
                   api_key, server, base_url, headers, calls, requests,
                   last_request, response, outcome, in_flight, args, pending,
                   propagated>>
    /\ UNCHANGED script_vars

\* `with client:` -- AnclaClient.__enter__ returns self.
Enter ==
    /\ pc = "ready"
    /\ in_flight = ""
    /\ session = "open"
    /\ calls = 0
    /\ pc' = "in_with"
    /\ UNCHANGED <<env_api_key, env_server, arg_api_key, arg_server, api_key,
                   server, base_url, headers, session, calls, requests,
                   last_request, response, outcome, in_flight, args, pending,
                   propagated>>
    /\ UNCHANGED script_vars

\* Leaving the `with` block, normally or because of an exception.
Exit ==
    /\ pc \in {"in_with", "unwinding"}
    /\ in_flight = ""
    /\ LET x == AnclaExit(session)
       IN  /\ session' = x.session
           /\ propagated' = IF pc = "unwinding" /\ ~x.suppress
                            THEN pending ELSE NoOutcome
    /\ pc' = "exited"
    /\ UNCHANGED <<env_api_key, env_server, arg_api_key, arg_server, api_key,
                   server, base_url, headers, calls, requests, last_request,
                   response, outcome, in_flight, args, pending>>
    /\ UNCHANGED script_vars

----------------------------------------------------------------------------
(* Calls *)

\* A client method is called on an open session: it builds its request and
\* hands it to the session, then blocks until the transport answers.
BeginCall(op, a) ==
    /\ pc \in {"ready", "in_with"}
    /\ in_flight = ""
    /\ session = "open"
    /\ calls < MaxCalls
    /\ in_flight' = op
    /\ args' = a
    /\ calls' = calls + 1
    /\ LET sent == Sent(op, a, headers)
       IN  /\ requests' = requests + Len(sent)
           /\ last_request' = sent[Len(sent)]
    /\ response' = NoResponse
    /\ outcome' = NoOutcome
    /\ UNCHANGED <<pc, env_api_key, env_server, arg_api_key, arg_server,
                   api_key, server, base_url, headers, session, pending,
                   propagated>>
    /\ UNCHANGED script_vars

\* AnclaClient._request and the method around it leave self._client as it
\* is, whether they return or raise: nothing but close() closes it.
SessionAfterCallClosesOnError(sess, r) ==
    IF r.kind = "raise" THEN "closed" ELSE sess
SessionAfterCall(sess, r) == sess

\* The transport answers or fails, and the method returns or raises.  Inside
\* a `with` block an exception either is handled inside the block
\* (escapes = FALSE) or leaves the block.
EndCall(net, escapes) ==
    /\ in_flight # ""
    /\ LET r == MethodResult(in_flight, net)
       IN  /\ response' = net
           /\ outcome' = r
           /\ session' = SessionAfterCall(session, r)
           /\ IF pc = "in_with" /\ r.kind = "raise" /\ escapes
              THEN pc' = "unwinding" /\ pending' = r
              ELSE UNCHANGED <<pc, pending>>
    /\ in_flight' = ""
    /\ UNCHANGED <<env_api_key, env_server, arg_api_key, arg_server, api_key,
                   server, base_url, headers, calls, requests, last_request,
                   args, propagated>>
    /\ UNCHANGED script_vars

----------------------------------------------------------------------------
(* Specifications *)

\* The calling program: a client with a fixture configuration, used
\* directly or as a scoped resource.
Init == Start(FixtureKeyEnvs, {NoSeq})

Next ==
    \/ \E k \in FixtureKeyArgs, s \in FixtureServers : Construct(k, s)
    \/ \E op \in Ops : \E a \in ArgsOf(op, FixtureInputs) : BeginCall(op, a)
    \/ \E net \in NetOutcomes, escapes \in BOOLEAN : EndCall(net, escapes)
    \/ Close
    \/ Enter
    \/ Exit

Spec == Init /\ [][Next]_vars

\* Construction alone, over every environment and every argument.
InitConstruct == Start(KeyEnvs, ServerValues)

NextConstruct ==
    \/ \E k \in KeyArgs, s \in ServerValues : Construct(k, s)
    \/ Close

SpecConstruct == InitConstruct /\ [][NextConstruct]_vars

\* Request building, over servers with and without a trailing slash and
\* over arguments that are empty or contain "/".
RequestServers == {NoSeq, SomeSeq(<<"h">>), SomeSeq(<<"h", "/">>)}
RequestNets ==
    {Answer(200, NewOrgPayload), Answer(404, Body("", JInvalid)),
     TransportFailure}

InitRequest == Start({PyNone}, {NoSeq})

NextRequest ==
    \/ \E k \in FixtureKeyArgs, s \in RequestServers : Construct(k, s)
    \/ \E op \in Ops : \E a \in ArgsOf(op, AllInputs) : BeginCall(op, a)
    \/ \E net \in RequestNets : EndCall(net, FALSE)
    \/ Close

SpecRequest == InitRequest /\ [][NextRequest]_vars

----------------------------------------------------------------------------
(* Properties *)

\* The call that was last made has ended and the transport had answered it.
Answered == in_flight = "" /\ response.received

\* The last call ended by raising an error of ancla.exceptions.
RaisedSdkError == outcome.kind = "raise" /\ IsInstance(outcome.exc, "AnclaError")

\* The error taxonomy, by HTTP status.
TaxonomyKind(st) ==
    IF st = 401 THEN "AuthenticationError"
    ELSE IF st = 404 THEN "NotFoundError"
    ELSE IF st = 422 THEN "ValidationError"
    ELSE IF st \in 500..599 THEN "ServerError"
    ELSE "AnclaError"

\* C1: a response with status s >= 400 makes the call raise one SDK
\* exception whose class depends on s alone (401, 404, 422, >= 500 have
\* their own class, every other s >= 400 the generic AnclaError); it is
\* catchable as AnclaError and its status_code is s.
C1_ErrorKindByStatus ==
    (Answered /\ response.status >= 400) =>
        /\ outcome.kind = "raise"
        /\ outcome.exc \in SdkClasses
        /\ outcome.exc = TaxonomyKind(response.status)
        /\ IsInstance(outcome.exc, "AnclaError")
        /\ outcome.status_code = response.status

C1_Witness ==
    /\ Answered
    /\ response.status = 500
    /\ outcome.exc = "ServerError"
    /\ outcome.status_code = 500

\* C2: a call that got a response raises an SDK exception exactly when the
\* status is >= 400; below 400 delete_* and scale_app return without
\* decoding the body.
C2_RaisesIffErrorStatus ==
    Answered =>
        /\ RaisedSdkError <=> response.status >= 400
        /\ (response.status < 400 /\ last_request.op \in NoDecodeOps) =>
               (outcome.kind = "return" /\ ~outcome.decoded)

C2_Witness ==
    /\ Answered
    /\ response.status = 204
    /\ response.body.text = ""
    /\ last_request.op = "delete_org"
    /\ outcome.kind = "return"

\* The message the three-step chain of C3 resolves for a response.
ServerProvided(body) ==
    IF body.json = "object" /\ Truthy(body.message) THEN body.message
    ELSE IF body.json = "object" /\ Truthy(body.detail) THEN body.detail
    ELSE PyNone

ChainMessage(resp) ==
    IF Truthy(ServerProvided(resp.body)) THEN ServerProvided(resp.body).s
    ELSE IF resp.body.text # "" THEN resp.body.text
    ELSE GenericMessage(resp.status)

\* C3: the message of an exception raised for an error response is the
\* server-provided message/detail when present, else the raw body text when
\* non-empty (also for a JSON object carrying neither key), else
\* "API request failed (<status>)".
C3_MessageChain ==
    (Answered /\ RaisedSdkError) => outcome.message = ChainMessage(response)

\* C4: an error response whose body is not a JSON object still raises the
\* taxonomy exception of its status, and message and detail are the raw
\* text when it is non-empty.
C4_NonObjectBody ==
    (Answered /\ response.status >= 400 /\ response.body.json # "object") =>
        /\ outcome.kind = "raise"
        /\ outcome.exc = TaxonomyKind(response.status)
        /\ response.body.text # "" =>
               /\ outcome.message = response.body.text
               /\ outcome.detail = PyStr(response.body.text)

C4_Witness ==
    /\ Answered
    /\ response.status = 500
    /\ response.body.text = "Internal Server Error"
    /\ outcome.exc = "ServerError"
    /\ outcome.message = "Internal Server Error"

\* C5: an explicit api_key argument always overrides the environment, for
\* every explicit value; without one the environment value is used; with
\* neither the key is "".
C5_ExplicitKeyOverrides ==
    pc # "start" =>
        api_key = IF ~arg_api_key.none THEN arg_api_key.s
                  ELSE IF ~env_api_key.none THEN env_api_key.s
                  ELSE ""

\* C6 as stated: nothing set gives the default; only the environment
\* variable set gives that value; an explicit argument takes precedence.
\* (Read in the claim's favour: an empty string counts as not given.)
C6_ServerChainAsStated ==
    pc # "start" =>
        /\ (~TruthySeq(arg_server) /\ ~TruthySeq(env_server)) =>
               server = _DEFAULT_SERVER
        /\ (~TruthySeq(arg_server) /\ TruthySeq(env_server)) =>
               server = env_server.s
        /\ TruthySeq(arg_server) => server = RStrip(arg_server.s)

\* C6 (amended): the server is the first non-empty value among the explicit
\* argument, ANCLA_SERVER and the default, with its trailing slashes
\* stripped; with neither given it is exactly "https://ancla.dev".
C6_ServerChain ==
    pc # "start" =>
        /\ (~TruthySeq(arg_server) /\ ~TruthySeq(env_server)) =>
               /\ server = _DEFAULT_SERVER
               /\ server = <<"h","t","t","p","s",":","/","/",
                             "a","n","c","l","a",".","d","e","v">>
        /\ (~TruthySeq(arg_server) /\ TruthySeq(env_server)) =>
               server = RStrip(env_server.s)
        /\ TruthySeq(arg_server) => server = RStrip(arg_server.s)

C6_Witness ==
    /\ pc = "ready"
    /\ arg_server = SomeSeq(<<"h">>)
    /\ env_server = SomeSeq(<<"h", "h", "/">>)
    /\ server = <<"h">>

\* s ends with "/".
EndsWithSlash(s) == s # <<>> /\ s[Len(s)] = "/"

\* C7 as stated: one trailing slash of the explicit server is removed, so
\* that server = u + "/" yields u, and a server without one is unchanged.
C7_StripsOneSlash ==
    (pc # "start" /\ TruthySeq(arg_server)) =>
        server = IF EndsWithSlash(arg_server.s)
                 THEN SubSeq(arg_server.s, 1, Len(arg_server.s) - 1)
                 ELSE arg_server.s

\* C7 (amended): every trailing slash of a non-empty explicit server is
\* removed: client.server is the argument without its run of trailing
\* slashes, so u + "/" yields u when u has no trailing slash, and a server
\* without a trailing slash is unchanged.
C7_StripsAllSlashes ==
    (pc # "start" /\ TruthySeq(arg_server)) =>
        /\ ~EndsWithSlash(server)
        /\ Len(server) <= Len(arg_server.s)
        /\ \A i \in 1..Len(arg_server.s) :
               IF i <= Len(server) THEN server[i] = arg_server.s[i]
               ELSE arg_server.s[i] = "/"

C7_Witness ==
    /\ pc = "ready"
    /\ arg_server = SomeSeq(<<"h", "/", "/">>)
    /\ server = <<"h">>

\* C8: every request carries X-API-Key equal to the key resolved at
\* construction when that key is non-empty, and no X-API-Key otherwise.
C8_AuthHeader ==
    requests > 0 =>
        /\ api_key = ResolveApiKey(arg_api_key, env_api_key)
        /\ IF api_key # ""
           THEN /\ "X-API-Key" \in DOMAIN last_request.headers
                /\ last_request.headers["X-API-Key"] = api_key
           ELSE "X-API-Key" \notin DOMAIN last_request.headers

C8_Witness ==
    /\ requests = 2
    /\ api_key = ""
    /\ DOMAIN last_request.headers = {}

\* C9: every method call issues exactly one request, whatever its outcome:
\* a status >= 400 or a transport failure is not followed by a second
\* request, and no call ends without its request.
C9_OneRequestPerCall ==
    /\ requests = calls
    /\ outcome.kind # "none" => requests >= 1

C9_Witness ==
    /\ calls = 2
    /\ requests = 2
    /\ Answered
    /\ response.status = 503
    /\ outcome.exc = "ServerError"

\* C10: the session is open after construction, is closed by close() and
\* by every exit from a `with` block, and an exception that leaves the
\* block is not swallowed by the exit.
C10_ScopedRelease ==
    /\ [][(pc = "start" /\ pc' # "start") => session' = "open"]_vars
    /\ [][Close => session' = "closed"]_vars
    /\ [][Exit => (session' = "closed" /\ (pc = "unwinding" => propagated' = pending))]_vars
    /\ [](pc = "unwinding" => pending.kind = "raise")
    /\ [](pc = "exited" => session = "closed")

C10_Witness ==
    /\ pc = "exited"
    /\ session = "closed"
    /\ propagated.kind = "raise"
    /\ propagated.exc = "NotFoundError"

\* The methods that return a list: from a bare JSON array, or from the
\* items of an {"items": [...]} envelope.
ArrayOps == {"list_orgs", "list_projects", "list_apps", "list_config",
             "list_deployments"}
EnvelopeOps == {"list_images", "list_releases"}

\* The items a success body holds for a list method, when it has the shape
\* the method expects.
HasItems(op, v) ==
    \/ op \in ArrayOps /\ v.k = "list"
    \/ op \in EnvelopeOps /\ v.k = "object" /\ "items" \in DOMAIN v.o
       /\ v.o["items"].k = "list"

ItemsOf(op, v) == IF op \in ArrayOps THEN v.l ELSE v.o["items"].l

\* An item that is an object carrying every field its record type requires
\* (for a type whose definition is missing, any object).
CompleteItem(op, item) ==
    /\ item.k = "object"
    /\ OpModel(op) \in DefinedModels =>
           \A fld \in DOMAIN ModelFields(OpModel(op)) :
               ModelFields(OpModel(op))[fld].required => fld \in DOMAIN item.o

\* The fields of a typed record equal the fields of the JSON object.
FieldsMatch(rec, item) ==
    \A fld \in DOMAIN item.o :
        fld \in DOMAIN rec.f => rec.f[fld] = item.o[fld]

\* C11: for every list method, a success response holding n items yields a
\* sequence of exactly n typed records, in the same order, whose fields
\* equal the fields of the corresponding input item.
C11_ListYieldsRecords ==
    (/\ Answered
     /\ response.status < 400
     /\ last_request.op \in ArrayOps \union EnvelopeOps
     /\ HasItems(last_request.op, response.body.value)
     /\ \A i \in 1..Len(ItemsOf(last_request.op, response.body.value)) :
            CompleteItem(last_request.op,
                         ItemsOf(last_request.op, response.body.value)[i]))
    => LET items == ItemsOf(last_request.op, response.body.value)
       IN  /\ outcome.kind = "return"
           /\ outcome.value.k = "list"
           /\ Len(outcome.value.items) = Len(items)
           /\ \A i \in 1..Len(items) :
                  FieldsMatch(outcome.value.items[i], items[i])

\* The record a type builds from an object when absent fields take their
\* defaults and unknown fields are ignored.
DefaultedFields(cls, v) ==
    [fld \in DOMAIN ModelFields(cls) |->
        IF fld \in DOMAIN v.o THEN v.o[fld] ELSE ModelFields(cls)[fld].default]

\* C12: every record type is constructible from any response object: an
\* absent field takes its default and an unknown field is ignored, so
\* decoding an object never fails because a field (name and slug included)
\* is missing or unrecognised.
C12_AnyObjectDecodes ==
    (/\ Answered
     /\ response.status < 400
     /\ OpShape(last_request.op) = "record"
     /\ OpModel(last_request.op) \in DefinedModels
     /\ response.body.value.k = "object")
    => /\ outcome.kind = "return"
       /\ outcome.value.k = "record"
       /\ outcome.value.rec.f =
              DefaultedFields(OpModel(last_request.op), response.body.value)

\* C15: a transport-level failure of the request propagates from the client
\* method as the transport's own error: never as AnclaError or a subclass
\* of it, and never as a normal return.
C15_TransportErrorPropagates ==
    (in_flight = "" /\ calls > 0 /\ response = TransportFailure) =>
        /\ outcome.kind = "raise"
        /\ outcome.exc = "TransportError"
        /\ outcome.exc \notin SdkClasses
        /\ ~IsInstance(outcome.exc, "AnclaError")

C15_Witness ==
    /\ in_flight = ""
    /\ calls > 0
    /\ response = TransportFailure
    /\ outcome.kind = "raise"
    /\ outcome.exc = "TransportError"

\* C17: deploy_app(org, project, slug) sends one POST to
\* /applications/{org}/{project}/{slug}/deploy and returns a result record
\* whose image_id field equals the image_id value of the response JSON.
C17_DeployReturnsImageId ==
    (/\ Answered
     /\ last_request.op = "deploy_app"
     /\ response.status < 400
     /\ response.body.value.k = "object"
     /\ "image_id" \in DOMAIN response.body.value.o)
    => /\ last_request.method = "POST"
       /\ last_request.path =
              "/applications/" \o args.org \o "/" \o args.project \o "/"
              \o args.app \o "/deploy"
       /\ outcome.kind = "return"
       /\ outcome.value.k = "record"
       /\ "image_id" \in DOMAIN outcome.value.rec.f
       /\ outcome.value.rec.f["image_id"] = response.body.value.o["image_id"]

\* C19: when an error response body is a JSON object carrying both message
\* and detail, the exception's message and detail are the message value;
\* detail is used only when message is absent or empty.
C19_MessageBeforeDetail ==
    (Answered /\ response.status >= 400 /\ response.body.json = "object") =>
        /\ Truthy(response.body.message) =>
               /\ outcome.message = response.body.message.s
               /\ outcome.detail = response.body.message
        /\ (~Truthy(response.body.message) /\ Truthy(response.body.detail)) =>
               /\ outcome.message = response.body.detail.s
               /\ outcome.detail = response.body.detail

C19_Witness ==
    /\ Answered
    /\ response.status >= 400
    /\ Truthy(response.body.message)
    /\ Truthy(response.body.detail)
    /\ outcome.message = "Rate limited"
    /\ outcome.detail = PyStr("Rate limited")

\* C13: create_org(name) sends one POST whose JSON body is exactly
\* {"name": name}, with no other key, and on a 200 response returns a
\* record whose id, name and slug equal those of the response JSON.
C13_CreateOrg ==
    (/\ Answered
     /\ last_request.op = "create_org"
     /\ response.status = 200
     /\ response.body.value.k = "object"
     /\ {"id", "name", "slug"} \subseteq DOMAIN response.body.value.o)
    => /\ last_request.method = "POST"
       /\ last_request.json = JObj("name" :> JStr(args.name))
       /\ outcome.kind = "return"
       /\ outcome.value.k = "record"
       /\ \A fld \in {"id", "name", "slug"} :
              outcome.value.rec.f[fld] = response.body.value.o[fld]

\* C14: scale_app(..., counts) sends one POST whose JSON body is exactly
\* {"process_counts": counts}: the single key process_counts mapped to the
\* given mapping unchanged, for every mapping counts.
C14_ScaleBody ==
    (calls > 0 /\ last_request.op = "scale_app") =>
        /\ requests = calls
        /\ last_request.method = "POST"
        /\ last_request.json.k = "object"
        /\ DOMAIN last_request.json.o = {"process_counts"}
        /\ last_request.json.o["process_counts"].k = "object"
        /\ last_request.json.o["process_counts"].o = args.counts

C14_Witness ==
    /\ last_request.op = "scale_app"
    /\ args.counts = ("web" :> JInt(2) @@ "worker" :> JInt(1))
    /\ last_request.json =
           JObj("process_counts"
                :> JObj("web" :> JInt(2) @@ "worker" :> JInt(1)))

\* C16: every request is addressed to the resolved server, then /api/v1,
\* then the operation's path template with the identifiers interpolated;
\* the template's trailing slash is preserved (list_orgs and create_org
\* address /organizations/ with the slash, get_org, update_org and
\* delete_org address /organizations/{slug} without one).
C16_RequestUrl ==
    calls > 0 =>
        /\ server = ResolveServer(arg_server, env_server)
        /\ base_url = server \o <<"/", "a", "p", "i", "/", "v", "1">>
        /\ last_request.op \in {"list_orgs", "create_org"} =>
               last_request.path = "/organizations/"
        /\ last_request.op \in {"get_org", "update_org", "delete_org"} =>
               last_request.path = "/organizations/" \o args.org
        /\ last_request.op \in {"list_projects", "create_project"} =>
               last_request.path = "/projects/" \o args.org
        /\ last_request.op \in {"get_project", "update_project",
                                "delete_project"} =>
               last_request.path =
                   "/projects/" \o args.org \o "/" \o args.project
        /\ last_request.op = "get_config" =>
               last_request.path =
                   "/configurations/" \o args.org \o "/" \o args.project
                   \o "/" \o args.app \o "/" \o args.key

C16_Witness ==
    /\ calls > 0
    /\ arg_server = SomeSeq(<<"h", "/">>)
    /\ base_url = <<"h", "/", "a", "p", "i", "/", "v", "1">>
    /\ last_request.op = "create_org"
    /\ last_request.path = "/organizations/"

\* The request a freshly constructed client with the same configuration
\* issues for the call in flight.
FreshRequest ==
    [headers |-> BuildHeaders(ResolveApiKey(arg_api_key, env_api_key)),
     json |-> JsonBody(in_flight, args), op |-> in_flight,
     method |-> OpMethod(in_flight), path |-> Path(in_flight, args)]

\* C18: each call is independent: a call changes neither api_key, server,
\* session headers nor the open/closed status of the session, whether it
\* returns or raises, so the next call issues the request a freshly
\* constructed client with the same configuration would issue.
C18_CallsKeepConfiguration ==
    /\ [][(in_flight # "" \/ in_flight' # "") =>
              UNCHANGED <<api_key, server, base_url, headers, session>>]_vars
    /\ [](in_flight # "" => last_request = FreshRequest)

C18_Witness ==
    /\ calls = 2
    /\ in_flight = ""
    /\ outcome.kind = "raise"
    /\ session = "open"
    /\ headers = BuildHeaders(ResolveApiKey(arg_api_key, env_api_key))

\* The identifier arguments of a call.
Identifiers(a) == <<a.org, a.project, a.app, a.key, a.id>>

\* C20: the mapping from (operation, identifier arguments) to (HTTP method,
\* request path) is injective: no call that differs from the one in flight
\* in the operation or in an identifier issues the same method on the same
\* path, even with an empty identifier or one containing "/".
C20_InjectiveRouting ==
    in_flight # "" =>
        \A op2 \in Ops : \A a2 \in ArgsOf(op2, AllInputs) :
            (op2 # in_flight \/ Identifiers(a2) # Identifiers(args)) =>
                ~(/\ OpMethod(op2) = last_request.method
                  /\ Path(op2, a2) = last_request.path)

\* C21: the request of get_deployment(org, project, app, deployment_id)
\* depends on deployment_id only: calls with the same deployment_id and
\* different org, project or app issue the identical request
\* GET /deployments/{deployment_id}/detail.
C21_DeploymentByIdOnly ==
    (calls > 0 /\ last_request.op = "get_deployment") =>
        /\ last_request.method = "GET"
        /\ last_request.path = "/deployments/" \o args.id \o "/detail"
        /\ last_request.json = JNull
        /\ \A a2 \in ArgsOf("get_deployment", AllInputs) :
               a2.id = args.id =>
                   Sent("get_deployment", a2, headers) = <<last_request>>

C21_Witness ==
    /\ last_request.op = "get_deployment"
    /\ args.org = "a/b"
    /\ args.project = "b"
    /\ args.id = "7"
    /\ last_request.path = "/deployments/7/detail"

\* C22: every record type a client method decodes into or the test-suite
\* imports is defined in the models module and exported by the package, so
\* that the client module can be imported and every method can build its
\* declared return type.
C22_ModelsDefined ==
    calls > 0 =>
        /\ ClientImports \union TestImports \subseteq DefinedModels
        /\ ClientImports \union TestImports \subseteq PackageExports
        /\ \A op \in Ops : OpModel(op) # "" => OpModel(op) \in DefinedModels
        /\ outcome.exc # "ImportError"

----------------------------------------------------------------------------
(* The scripts *)

\* The scripts run on their own: no client is constructed.
InitScripts == Start({PyNone}, {NoSeq})

----------------------------------------------------------------------------
(* scripts/enrich-openapi.py: documents *)

\* An OpenAPI document is a JSON value.  dict operations on a JSON value:
\* `key in d`, d.get(key, default) and d[key] = x.
Has(d, key) == d.k = "object" /\ key \in DOMAIN d.o

DictGet(d, key, default) == IF Has(d, key) THEN d.o[key] ELSE default

DictSet(d, key, x) ==
    JObj([q \in DOMAIN d.o \cup {key} |-> IF q = key THEN x ELSE d.o[q]])

EmptyDict == JObj(<<>>)

\* str.startswith(prefix), for the strings prefix \o rest with rest drawn
\* from `rests`.
StartsWith(str, prefix, rests) == \E rest \in rests : str = prefix \o rest

----------------------------------------------------------------------------
(* scripts/enrich-openapi.py: tables *)

\* SCHEMAS: name -> schema definition
SCHEMAS ==
       "Workspace" :>
        JObj(
            "type" :> JStr("object")
         @@ "properties" :> JObj(
                "id" :> JObj("type" :> JStr("string"))
             @@ "name" :> JObj("type" :> JStr("string"))
             @@ "slug" :> JObj("type" :> JStr("string"))
             @@ "member_count" :> JObj("type" :> JStr("integer"))
             @@ "project_count" :> JObj("type" :> JStr("integer"))
             @@ "service_count" :> JObj("type" :> JStr("integer"))
             @@ "members" :> JObj(
                    "type" :> JStr("array")
                 @@ "items" :> JObj(
                        "$ref" :> JStr("#/components/schemas/WorkspaceMember"))))
         @@ "required" :> JList(<<JStr("id"), JStr("name"), JStr("slug")>>))
    @@ "WorkspaceMember" :>
        JObj(
            "type" :> JStr("object")
         @@ "properties" :> JObj(
                "username" :> JObj("type" :> JStr("string"))
             @@ "email" :> JObj("type" :> JStr("string"))
             @@ "admin" :> JObj("type" :> JStr("boolean")))
         @@ "required" :> JList(<<JStr("username"), JStr("email"), JStr("admin")>>))
    @@ "Project" :>
        JObj(
            "type" :> JStr("object")
         @@ "properties" :> JObj(
                "id" :> JObj("type" :> JStr("string"))
             @@ "name" :> JObj("type" :> JStr("string"))
             @@ "slug" :> JObj("type" :> JStr("string"))
             @@ "workspace_slug" :> JObj("type" :> JStr("string"))
             @@ "workspace_name" :> JObj("type" :> JStr("string"))
             @@ "service_count" :> JObj("type" :> JStr("integer"))
             @@ "created" :> JObj(
                    "type" :> JStr("string")
                 @@ "format" :> JStr("date-time"))
             @@ "updated" :> JObj(
                    "type" :> JStr("string")
                 @@ "format" :> JStr("date-time")))
         @@ "required" :> JList(<<JStr("id"), JStr("name"), JStr("slug")>>))
    @@ "Environment" :>
        JObj(
            "type" :> JStr("object")
         @@ "properties" :> JObj(
                "id" :> JObj("type" :> JStr("string"))
             @@ "name" :> JObj("type" :> JStr("string"))
             @@ "slug" :> JObj("type" :> JStr("string"))
             @@ "service_count" :> JObj("type" :> JStr("integer"))
             @@ "created" :> JObj(
                    "type" :> JStr("string")
                 @@ "format" :> JStr("date-time")))
         @@ "required" :> JList(<<JStr("id"), JStr("name"), JStr("slug")>>))
    @@ "Service" :>
        JObj(
            "type" :> JStr("object")
         @@ "properties" :> JObj(
                "id" :> JObj("type" :> JStr("string"))
             @@ "name" :> JObj("type" :> JStr("string"))
             @@ "slug" :> JObj("type" :> JStr("string"))
             @@ "platform" :> JObj("type" :> JStr("string"))
             @@ "github_repository" :> JObj("type" :> JStr("string"))
             @@ "auto_deploy_branch" :> JObj("type" :> JStr("string"))
             @@ "process_counts" :> JObj(
                    "type" :> JStr("object")
                 @@ "additionalProperties" :> JObj("type" :> JStr("integer"))))
         @@ "required" :> JList(<<JStr("id"), JStr("name"), JStr("slug"), JStr("platform")>>))
    @@ "Build" :>
        JObj(
            "type" :> JStr("object")
         @@ "properties" :> JObj(
                "id" :> JObj("type" :> JStr("string"))
             @@ "version" :> JObj("type" :> JStr("integer"))
             @@ "built" :> JObj("type" :> JStr("boolean"))
             @@ "error" :> JObj("type" :> JStr("boolean"))
             @@ "created" :> JObj(
                    "type" :> JStr("string")
                 @@ "format" :> JStr("date-time")))
         @@ "required" :> JList(<<JStr("id"), JStr("version"), JStr("built"), JStr("error"), JStr("created")>>))
    @@ "BuildList" :>
        JObj(
            "type" :> JStr("object")
         @@ "properties" :> JObj(
                "items" :> JObj(
                    "type" :> JStr("array")
                 @@ "items" :> JObj("$ref" :> JStr("#/components/schemas/Build"))))
         @@ "required" :> JList(<<JStr("items")>>))
    @@ "BuildResult" :>
        JObj(
            "type" :> JStr("object")
         @@ "properties" :> JObj(
                "build_id" :> JObj("type" :> JStr("string"))
             @@ "version" :> JObj("type" :> JStr("integer")))
         @@ "required" :> JList(<<JStr("build_id"), JStr("version")>>))
    @@ "BuildLog" :>
        JObj(
            "type" :> JStr("object")
         @@ "properties" :> JObj(
                "status" :> JObj("type" :> JStr("string"))
             @@ "version" :> JObj("type" :> JStr("integer"))
             @@ "log_text" :> JObj("type" :> JStr("string")))
         @@ "required" :> JList(<<JStr("status"), JStr("version"), JStr("log_text")>>))
    @@ "Deploy" :>
        JObj(
            "type" :> JStr("object")
         @@ "properties" :> JObj(
                "id" :> JObj("type" :> JStr("string"))
             @@ "complete" :> JObj("type" :> JStr("boolean"))
             @@ "error" :> JObj("type" :> JStr("boolean"))
             @@ "error_detail" :> JObj("type" :> JStr("string"))
             @@ "job_id" :> JObj("type" :> JStr("string"))
             @@ "created" :> JObj(
                    "type" :> JStr("string")
                 @@ "format" :> JStr("date-time"))
             @@ "updated" :> JObj(
                    "type" :> JStr("string")
                 @@ "format" :> JStr("date-time")))
         @@ "required" :> JList(<<JStr("id"), JStr("complete"), JStr("error"), JStr("created")>>))
    @@ "DeployList" :>
        JObj(
            "type" :> JStr("object")
         @@ "properties" :> JObj(
                "items" :> JObj(
                    "type" :> JStr("array")
                 @@ "items" :> JObj("$ref" :> JStr("#/components/schemas/Deploy"))))
         @@ "required" :> JList(<<JStr("items")>>))
    @@ "DeployLog" :>
        JObj(
            "type" :> JStr("object")
         @@ "properties" :> JObj(
                "status" :> JObj("type" :> JStr("string"))
             @@ "log_text" :> JObj("type" :> JStr("string")))
         @@ "required" :> JList(<<JStr("status"), JStr("log_text")>>))
    @@ "ConfigVar" :>
        JObj(
            "type" :> JStr("object")
         @@ "properties" :> JObj(
                "id" :> JObj("type" :> JStr("string"))
             @@ "name" :> JObj("type" :> JStr("string"))
             @@ "value" :> JObj("type" :> JStr("string"))
             @@ "secret" :> JObj("type" :> JStr("boolean"))
             @@ "buildtime" :> JObj("type" :> JStr("boolean"))
             @@ "scope" :> JObj("type" :> JStr("string")))
         @@ "required" :> JList(<<JStr("id"), JStr("name"), JStr("value"), JStr("secret"), JStr("buildtime"), JStr("scope")>>))
    @@ "Team" :>
        JObj(
            "type" :> JStr("object")
         @@ "properties" :> JObj(
                "id" :> JObj("type" :> JStr("string"))
             @@ "name" :> JObj("type" :> JStr("string"))
             @@ "slug" :> JObj("type" :> JStr("string")))
         @@ "required" :> JList(<<JStr("id"), JStr("name"), JStr("slug")>>))
    @@ "PipelineStatus" :>
        JObj(
            "type" :> JStr("object")
         @@ "properties" :> JObj(
                "build" :> JObj("$ref" :> JStr("#/components/schemas/StageStatus"))
             @@ "deploy" :> JObj("$ref" :> JStr("#/components/schemas/StageStatus"))))
    @@ "StageStatus" :>
        JObj(
            "type" :> JStr("object")
         @@ "properties" :> JObj("status" :> JObj("type" :> JStr("string")))
         @@ "required" :> JList(<<JStr("status")>>))
    @@ "PipelineHistory" :>
        JObj(
            "type" :> JStr("object")
         @@ "properties" :> JObj(
                "items" :> JObj(
                    "type" :> JStr("array")
                 @@ "items" :> JObj("type" :> JStr("object")))))
    @@ "PipelineMetrics" :>
        JObj(
            "type" :> JStr("object")
         @@ "properties" :> JObj("metrics" :> JObj("type" :> JStr("object"))))
    @@ "ObservabilityData" :>
        JObj(
            "type" :> JStr("object")
         @@ "properties" :> JObj(
                "metrics" :> JObj("type" :> JStr("object"))
             @@ "logs" :> JObj("type" :> JStr("object"))))
    @@ "PromotionPreview" :>
        JObj(
            "type" :> JStr("object")
         @@ "properties" :> JObj(
                "changes" :> JObj(
                    "type" :> JStr("array")
                 @@ "items" :> JObj("type" :> JStr("object")))))
    @@ "PromotionResult" :>
        JObj(
            "type" :> JStr("object")
         @@ "properties" :> JObj(
                "success" :> JObj("type" :> JStr("boolean"))
             @@ "message" :> JObj("type" :> JStr("string")))
         @@ "required" :> JList(<<JStr("success")>>))
    @@ "CreateWorkspaceRequest" :>
        JObj(
            "type" :> JStr("object")
         @@ "properties" :> JObj("name" :> JObj("type" :> JStr("string")))
         @@ "required" :> JList(<<JStr("name")>>))
    @@ "UpdateWorkspaceRequest" :>
        JObj(
            "type" :> JStr("object")
         @@ "properties" :> JObj("name" :> JObj("type" :> JStr("string")))
         @@ "required" :> JList(<<JStr("name")>>))
    @@ "CreateProjectRequest" :>
        JObj(
            "type" :> JStr("object")
         @@ "properties" :> JObj("name" :> JObj("type" :> JStr("string")))
         @@ "required" :> JList(<<JStr("name")>>))
    @@ "UpdateProjectRequest" :>
        JObj(
            "type" :> JStr("object")
         @@ "properties" :> JObj("name" :> JObj("type" :> JStr("string")))
         @@ "required" :> JList(<<JStr("name")>>))
    @@ "CreateEnvironmentRequest" :>
        JObj(
            "type" :> JStr("object")
         @@ "properties" :> JObj("name" :> JObj("type" :> JStr("string")))
         @@ "required" :> JList(<<JStr("name")>>))
    @@ "UpdateEnvironmentRequest" :>
        JObj(
            "type" :> JStr("object")
         @@ "properties" :> JObj("name" :> JObj("type" :> JStr("string")))
         @@ "required" :> JList(<<JStr("name")>>))
    @@ "CreateServiceRequest" :>
        JObj(
            "type" :> JStr("object")
         @@ "properties" :> JObj(
                "name" :> JObj("type" :> JStr("string"))
             @@ "platform" :> JObj("type" :> JStr("string")))
         @@ "required" :> JList(<<JStr("name"), JStr("platform")>>))
    @@ "UpdateServiceRequest" :>
        JObj(
            "type" :> JStr("object")
         @@ "properties" :> JObj(
                "name" :> JObj("type" :> JStr("string"))
             @@ "github_repository" :> JObj("type" :> JStr("string"))
             @@ "auto_deploy_branch" :> JObj("type" :> JStr("string"))))
    @@ "SetConfigRequest" :>
        JObj(
            "type" :> JStr("object")
         @@ "properties" :> JObj(
                "name" :> JObj("type" :> JStr("string"))
             @@ "value" :> JObj("type" :> JStr("string"))
             @@ "secret" :> JObj("type" :> JStr("boolean")))
         @@ "required" :> JList(<<JStr("name"), JStr("value")>>))
    @@ "BulkSetConfigRequest" :>
        JObj(
            "type" :> JStr("object")
         @@ "properties" :> JObj(
                "vars" :> JObj(
                    "type" :> JStr("array")
                 @@ "items" :> JObj(
                        "$ref" :> JStr("#/components/schemas/SetConfigRequest"))))
         @@ "required" :> JList(<<JStr("vars")>>))
    @@ "ScaleRequest" :>
        JObj(
            "type" :> JStr("object")
         @@ "properties" :> JObj(
                "process_counts" :> JObj(
                    "type" :> JStr("object")
                 @@ "additionalProperties" :> JObj("type" :> JStr("integer"))))
         @@ "required" :> JList(<<JStr("process_counts")>>))
    @@ "DeployRequest" :>
        JObj(
            "type" :> JStr("object")
         @@ "properties" :> JObj("version" :> JObj("type" :> JStr("integer"))))
    @@ "AddMemberRequest" :>
        JObj(
            "type" :> JStr("object")
         @@ "properties" :> JObj(
                "username" :> JObj("type" :> JStr("string"))
             @@ "admin" :> JObj("type" :> JStr("boolean")))
         @@ "required" :> JList(<<JStr("username")>>))
    @@ "CreateTeamRequest" :>
        JObj(
            "type" :> JStr("object")
         @@ "properties" :> JObj("name" :> JObj("type" :> JStr("string")))
         @@ "required" :> JList(<<JStr("name")>>))
    @@ "PipelineDeployRequest" :>
        JObj(
            "type" :> JStr("object")
         @@ "properties" :> JObj("version" :> JObj("type" :> JStr("integer"))))
    @@ "PipelineRollbackRequest" :>
        JObj(
            "type" :> JStr("object")
         @@ "properties" :> JObj("version" :> JObj("type" :> JStr("integer"))))

\* OPERATION_ID_MAP with an entry whose clean name is itself a key.
OPERATION_ID_MAP_Chained ==
       "ApiV1WorkspacesListWorkspaces" :>
           "ApiV1WorkspacesCreateWorkspace"
    @@ "ApiV1WorkspacesCreateWorkspace" :>
           "createWorkspace"

\* OPERATION_ID_MAP: verbose operationId -> clean operationId
OPERATION_ID_MAP ==
       "ApiV1WorkspacesListWorkspaces" :>
           "listWorkspaces"
    @@ "ApiV1WorkspacesCreateWorkspace" :>
           "createWorkspace"
    @@ "ApiV1WorkspacesGetWorkspace" :>
           "getWorkspace"
    @@ "ApiV1WorkspacesMembersListMembers" :>
           "listMembers"
    @@ "ApiV1WorkspacesMembersAddMember" :>
           "addMember"
    @@ "ApiV1WorkspacesConfigListConfig" :>
           "listWorkspaceConfig"
    @@ "ApiV1WorkspacesConfigCreateConfig" :>
           "createWorkspaceConfig"
    @@ "ApiV1WorkspacesProjectsListProjects" :>
           "listProjects"
    @@ "ApiV1WorkspacesProjectsCreateProject" :>
           "createProject"
    @@ "ApiV1WorkspacesProjectsGetProject" :>
           "getProject"
    @@ "ApiV1WorkspacesProjectsUpdateProject" :>
           "updateProject"
    @@ "ApiV1WorkspacesProjectsConfigListConfig" :>
           "listProjectConfig"
    @@ "ApiV1WorkspacesProjectsConfigCreateConfig" :>
           "createProjectConfig"
    @@ "ApiV1WorkspacesProjectsEnvsListEnvironments" :>
           "listEnvironments"
    @@ "ApiV1WorkspacesProjectsEnvsCreateEnvironment" :>
           "createEnvironment"
    @@ "ApiV1WorkspacesProjectsEnvsGetEnvironment" :>
           "getEnvironment"
    @@ "ApiV1WorkspacesProjectsEnvsUpdateEnvironment" :>
           "updateEnvironment"
    @@ "ApiV1WorkspacesProjectsEnvsConfigListConfig" :>
           "listEnvConfig"
    @@ "ApiV1WorkspacesProjectsEnvsConfigCreateConfig" :>
           "createEnvConfig"
    @@ "ApiV1WorkspacesProjectsEnvsConfigConfigIdDeleteConfig" :>
           "deleteEnvConfig"
    @@ "ApiV1WorkspacesProjectsEnvsConfigBulkBulkCreateConfig" :>
           "bulkCreateEnvConfig"
    @@ "ApiV1WorkspacesProjectsEnvsDeployDeployEnv" :>
           "deployEnvironment"
    @@ "ApiV1WorkspacesProjectsEnvsDeploysListDeploys" :>
           "listEnvDeploys"
    @@ "ApiV1WorkspacesProjectsEnvsDeploysDeployIdGetDeploy" :>
           "getEnvDeploy"
    @@ "ApiV1WorkspacesProjectsEnvsDeploysDeployIdLogGetDeployLog" :>
           "getEnvDeployLog"
    @@ "ApiV1WorkspacesProjectsEnvsServicesListServices" :>
           "listServices"
    @@ "ApiV1WorkspacesProjectsEnvsServicesCreateService" :>
           "createService"
    @@ "ApiV1WorkspacesProjectsEnvsServicesSvcGetService" :>
           "getService"
    @@ "ApiV1WorkspacesProjectsEnvsServicesSvcUpdateService" :>
           "updateService"
    @@ "ApiV1WorkspacesProjectsEnvsServicesSvcDeployDeployService" :>
           "deployService"
    @@ "ApiV1WorkspacesProjectsEnvsServicesSvcConfigListConfig" :>
           "listServiceConfig"
    @@ "ApiV1WorkspacesProjectsEnvsServicesSvcConfigCreateConfig" :>
           "createServiceConfig"
    @@ "ApiV1WorkspacesProjectsEnvsServicesSvcConfigResolvedGetResolvedConfig" :>
           "getResolvedConfig"
    @@ "ApiV1WorkspacesProjectsEnvsServicesSvcBuildsListBuilds" :>
           "listBuilds"
    @@ "ApiV1WorkspacesProjectsEnvsServicesSvcBuildsVersionGetBuild" :>
           "getBuild"
    @@ "ApiV1WorkspacesProjectsEnvsServicesSvcBuildsVersionLogGetBuildLog" :>
           "getBuildLog"
    @@ "ApiV1WorkspacesProjectsEnvsServicesSvcBuildsTriggerTriggerBuild" :>
           "triggerBuild"
    @@ "ApiV1WorkspacesProjectsEnvsServicesSvcDeploysListDeploys" :>
           "listServiceDeploys"
    @@ "ApiV1WorkspacesProjectsEnvsServicesSvcDeploysDeployIdGetDeploy" :>
           "getServiceDeploy"
    @@ "ApiV1WorkspacesProjectsEnvsServicesSvcDeploysDeployIdLogGetDeployLog" :>
           "getServiceDeployLog"
    @@ "ApiV1WorkspacesProjectsPromoteExecutePromotion" :>
           "executePromotion"
    @@ "ApiV1WorkspacesProjectsPromotePreviewPreviewPromotion" :>
           "previewPromotion"
    @@ "ApiV1WorkspacesTeamsListTeams" :>
           "listTeams"
    @@ "ApiV1WorkspacesTeamsCreateTeam" :>
           "createTeam"
    @@ "ApiV1WorkspacesTeamsConfigListConfig" :>
           "listTeamConfig"
    @@ "ApiV1WorkspacesTeamsConfigCreateConfig" :>
           "createTeamConfig"
    @@ "ApiV1WorkspacesProjectsPipelineDeployPipelineDeploy" :>
           "pipelineDeploy"
    @@ "ApiV1WorkspacesProjectsPipelineHistoryPipelineHistory" :>
           "pipelineHistory"
    @@ "ApiV1WorkspacesProjectsPipelineMetricsPipelineMetrics" :>
           "pipelineMetrics"
    @@ "ApiV1WorkspacesProjectsPipelineRollbackPipelineRollback" :>
           "pipelineRollback"
    @@ "ApiV1WorkspacesProjectsPipelineStatusPipelineStatus" :>
           "pipelineStatus"
    @@ "ApiV1WorkspacesProjectsObservabilityGetObservability" :>
           "getObservability"
    @@ "ApiV1AuthSessionGetSession" :>
           "getSession"
    @@ "ApiV1AuthLoginLogin" :>
           "login"
    @@ "ApiV1AuthLogoutLogout" :>
           "logout"
    @@ "ApiV1IntegrationsDockerAuthGetDockerAuth" :>
           "getDockerAuth"
    @@ "ApiV1IntegrationsDockerAuthPostDockerAuth" :>
           "postDockerAuth"
    @@ "ApiV1IntegrationsGithubHooksGithubHooks" :>
           "githubHooks"
    @@ "ApiV1IntegrationsHealthHealth" :>
           "health"
    @@ "ApiV1IntegrationsSigningCertSigningCert" :>
           "getSigningCert"

\* _ref(name) with a pointer that leaves out the schemas level.
_ref_NoSchemas(name) == JObj("$ref" :> JStr("#/components/" \o name))

\* _ref(name)
_ref(name) == JObj("$ref" :> JStr("#/components/schemas/" \o name))

\* _array_of(name)
_array_of(name) == JObj("type" :> JStr("array") @@ "items" :> _ref(name))

\* SCHEMA_MAP: clean operationId -> <<response override, request override>>;
\* JNull stands for None, "leave as is".
SCHEMA_MAP ==
       "listWorkspaces" :>
           <<_array_of("Workspace"), JNull>>
    @@ "createWorkspace" :>
           <<_ref("Workspace"), _ref("CreateWorkspaceRequest")>>
    @@ "getWorkspace" :>
           <<_ref("Workspace"), JNull>>
    @@ "listMembers" :>
           <<_array_of("WorkspaceMember"), JNull>>
    @@ "addMember" :>
           <<_ref("WorkspaceMember"), _ref("AddMemberRequest")>>
    @@ "listWorkspaceConfig" :>
           <<_array_of("ConfigVar"), JNull>>
    @@ "createWorkspaceConfig" :>
           <<_ref("ConfigVar"), _ref("SetConfigRequest")>>
    @@ "listProjects" :>
           <<_array_of("Project"), JNull>>
    @@ "createProject" :>
           <<_ref("Project"), _ref("CreateProjectRequest")>>
    @@ "getProject" :>
           <<_ref("Project"), JNull>>
    @@ "updateProject" :>
           <<_ref("Project"), _ref("UpdateProjectRequest")>>
    @@ "listProjectConfig" :>
           <<_array_of("ConfigVar"), JNull>>
    @@ "createProjectConfig" :>
           <<_ref("ConfigVar"), _ref("SetConfigRequest")>>
    @@ "listEnvironments" :>
           <<_array_of("Environment"), JNull>>
    @@ "createEnvironment" :>
           <<_ref("Environment"), _ref("CreateEnvironmentRequest")>>
    @@ "getEnvironment" :>
           <<_ref("Environment"), JNull>>
    @@ "updateEnvironment" :>
           <<_ref("Environment"), _ref("UpdateEnvironmentRequest")>>
    @@ "listEnvConfig" :>
           <<_array_of("ConfigVar"), JNull>>
    @@ "createEnvConfig" :>
           <<_ref("ConfigVar"), _ref("SetConfigRequest")>>
    @@ "deleteEnvConfig" :>
           <<JNull, JNull>>
    @@ "bulkCreateEnvConfig" :>
           <<_array_of("ConfigVar"), _ref("BulkSetConfigRequest")>>
    @@ "deployEnvironment" :>
           <<_ref("Deploy"), _ref("DeployRequest")>>
    @@ "listEnvDeploys" :>
           <<_ref("DeployList"), JNull>>
    @@ "getEnvDeploy" :>
           <<_ref("Deploy"), JNull>>
    @@ "getEnvDeployLog" :>
           <<_ref("DeployLog"), JNull>>
    @@ "listServices" :>
           <<_array_of("Service"), JNull>>
    @@ "createService" :>
           <<_ref("Service"), _ref("CreateServiceRequest")>>
    @@ "getService" :>
           <<_ref("Service"), JNull>>
    @@ "updateService" :>
           <<_ref("Service"), _ref("UpdateServiceRequest")>>
    @@ "deployService" :>
           <<_ref("Deploy"), _ref("DeployRequest")>>
    @@ "listServiceConfig" :>
           <<_array_of("ConfigVar"), JNull>>
    @@ "createServiceConfig" :>
           <<_ref("ConfigVar"), _ref("SetConfigRequest")>>
    @@ "getResolvedConfig" :>
           <<_array_of("ConfigVar"), JNull>>
    @@ "listBuilds" :>
           <<_ref("BuildList"), JNull>>
    @@ "getBuild" :>
           <<_ref("Build"), JNull>>
    @@ "getBuildLog" :>
           <<_ref("BuildLog"), JNull>>
    @@ "triggerBuild" :>
           <<_ref("BuildResult"), JNull>>
    @@ "listServiceDeploys" :>
           <<_ref("DeployList"), JNull>>
    @@ "getServiceDeploy" :>
           <<_ref("Deploy"), JNull>>
    @@ "getServiceDeployLog" :>
           <<_ref("DeployLog"), JNull>>
    @@ "executePromotion" :>
           <<_ref("PromotionResult"), JNull>>
    @@ "previewPromotion" :>
           <<_ref("PromotionPreview"), JNull>>
    @@ "listTeams" :>
           <<_array_of("Team"), JNull>>
    @@ "createTeam" :>
           <<_ref("Team"), _ref("CreateTeamRequest")>>
    @@ "listTeamConfig" :>
           <<_array_of("ConfigVar"), JNull>>
    @@ "createTeamConfig" :>
           <<_ref("ConfigVar"), _ref("SetConfigRequest")>>
    @@ "pipelineDeploy" :>
           <<_ref("Deploy"), _ref("PipelineDeployRequest")>>
    @@ "pipelineHistory" :>
           <<_ref("PipelineHistory"), JNull>>
    @@ "pipelineMetrics" :>
           <<_ref("PipelineMetrics"), JNull>>
    @@ "pipelineRollback" :>
           <<_ref("Deploy"), _ref("PipelineRollbackRequest")>>
    @@ "pipelineStatus" :>
           <<_ref("PipelineStatus"), JNull>>
    @@ "getObservability" :>
           <<_ref("ObservabilityData"), JNull>>
    @@ "getSession" :>
           <<JNull, JNull>>
    @@ "login" :>
           <<JNull, JNull>>
    @@ "logout" :>
           <<JNull, JNull>>
    @@ "getDockerAuth" :>
           <<JNull, JNull>>
    @@ "postDockerAuth" :>
           <<JNull, JNull>>
    @@ "githubHooks" :>
           <<JNull, JNull>>
    @@ "health" :>
           <<JNull, JNull>>
    @@ "getSigningCert" :>
           <<JNull, JNull>>

----------------------------------------------------------------------------
(* scripts/enrich-openapi.py: enrich *)

\* _is_bare_object that does not look at "properties".
_is_bare_object_IgnoringProperties(schema) ==
    /\ DictGet(schema, "type", JNull) = JStr("object")
    /\ ~Has(schema, "$ref")

\* _is_bare_object(schema)
_is_bare_object(schema) ==
    /\ DictGet(schema, "type", JNull) = JStr("object")
    /\ ~Has(schema, "properties")
    /\ ~Has(schema, "$ref")

\* _is_bare_array_of_object(schema)
_is_bare_array_of_object(schema) ==
    /\ DictGet(schema, "type", JNull) = JStr("array")
    /\ _is_bare_object(DictGet(schema, "items", EmptyDict))

\* The status codes of the documents are "2", "4" or "d" followed by one of
\* these.
CodeRests == {"00", "01", "04", "efault"}

\* json_content["schema"] = override where the existing schema passes the
\* test.  `holder` is the response or the request body; a missing "content",
\* "application/json" or "schema" reads as {} and {} is never bare, so the
\* assignment always lands in the holder's own nested dict.
PatchSchema(holder, override, bare_array_too) ==
    LET content == DictGet(holder, "content", EmptyDict)
        json_content == DictGet(content, "application/json", EmptyDict)
        existing == DictGet(json_content, "schema", EmptyDict)
    IN  IF \/ _is_bare_object(existing)
           \/ bare_array_too /\ _is_bare_array_of_object(existing)
        THEN DictSet(holder, "content",
                 DictSet(content, "application/json",
                     DictSet(json_content, "schema", override)))
        ELSE holder

\* The loop over op.get("responses", {}).items()
PatchResponses(op, resp_schema) ==
    LET responses == DictGet(op, "responses", EmptyDict)
    IN  IF resp_schema = JNull \/ DOMAIN responses.o = {}
        THEN op
        ELSE DictSet(op, "responses",
                 JObj([code \in DOMAIN responses.o |->
                     IF StartsWith(code, "2", CodeRests)
                     THEN PatchSchema(responses.o[code], resp_schema, TRUE)
                     ELSE responses.o[code]]))

\* rb = op.get("requestBody", {}) and the patch of its schema
PatchRequestBody(op, req_schema) ==
    LET rb == DictGet(op, "requestBody", EmptyDict)
        patched == PatchSchema(rb, req_schema, FALSE)
    IN  IF req_schema = JNull \/ patched = rb
        THEN op
        ELSE DictSet(op, "requestBody", patched)

\* The body of the loop over the methods, for one operation.  An
\* operationId that is not a key of OPERATION_ID_MAP gives new_id None and
\* the operation is left alone.
EnrichOperation(op) ==
    LET old_id == DictGet(op, "operationId", JStr(""))
    IN  IF old_id.k = "string" /\ old_id.s \in DOMAIN OPERATION_ID_MAP
        THEN LET new_id == OPERATION_ID_MAP[old_id.s]
                 renamed == DictSet(op, "operationId", JStr(new_id))
             IN  IF new_id \in DOMAIN SCHEMA_MAP
                 THEN PatchRequestBody(
                          PatchResponses(renamed, SCHEMA_MAP[new_id][1]),
                          SCHEMA_MAP[new_id][2])
                 ELSE renamed
        ELSE op

\* The methods whose operations enrich visits.
EnrichMethods == {"get", "post", "put", "patch", "delete"}

EnrichPathItem(path_item) ==
    JObj([key \in DOMAIN path_item.o |->
        IF key \in EnrichMethods
        THEN EnrichOperation(path_item.o[key])
        ELSE path_item.o[key]])

\* Step 1 of enrich: components.schemas exists and holds every entry of
\* SCHEMAS, over whatever had the same name.
InjectSchemas(spec) ==
    LET components == DictGet(spec, "components", EmptyDict)
        schemas == DictGet(components, "schemas", EmptyDict)
        injected == JObj([name \in DOMAIN schemas.o \cup DOMAIN SCHEMAS |->
                        IF name \in DOMAIN SCHEMAS
                        THEN SCHEMAS[name]
                        ELSE schemas.o[name]])
    IN  DictSet(spec, "components", DictSet(components, "schemas", injected))

\* Step 2 of enrich: every operation of every path item.
WalkOperations(spec) ==
    LET paths == DictGet(spec, "paths", EmptyDict)
    IN  IF DOMAIN paths.o = {}
        THEN spec
        ELSE DictSet(spec, "paths",
                 JObj([p \in DOMAIN paths.o |-> EnrichPathItem(paths.o[p])]))

\* What enrich does to the dict it works on.
EnrichSteps(spec) == WalkOperations(InjectSchemas(spec))

\* `spec = spec`: enrich works on the caller's own object.
DeepCopyAlias(x) == [value |-> x, shared |-> TRUE]

\* copy.deepcopy(x): an equal value that shares nothing with x.
DeepCopy(x) == [value |-> x, shared |-> FALSE]

\* enrich(spec): the returned document, and the caller's object afterwards.
Enrich(spec) ==
    LET work == DeepCopy(spec)
        result == EnrichSteps(work.value)
    IN  [result |-> result,
         argument |-> IF work.shared THEN result ELSE spec]

\* Building blocks of the input documents.  Absent marks a key that the
\* document does not have.
Absent == JInvalid

With(d, key, x) == IF x = Absent THEN d ELSE DictSet(d, key, x)

BareObject == JObj("type" :> JStr("object"))

DocMethods == {"get", "post", "head"}

DocCodes == {"200", "201", "404", "default"}

JsonContent(schema) ==
    JObj("content" :> With(EmptyDict, "application/json",
                           With(EmptyDict, "schema", schema)))

Operation(id, code, rschema, qschema) ==
    With(With(JObj("responses" :> JObj(code :> JsonContent(rschema))),
              "operationId", id),
         "requestBody", IF qschema = Absent THEN Absent
                        ELSE JsonContent(qschema))

\* A document with one operation of each choice, and a second path whose
\* delete operation has a verbose id without overrides.
Document(components, method, id, code, rschema, qschema) ==
    With(JObj("paths" :> JObj(
             "/api/v1/workspaces/" :>
                 JObj(method :> Operation(id, code, rschema, qschema))
          @@ "/api/v1/workspaces/{ws}/config/{config_id}" :>
                 JObj("delete" :> Operation(
                     JStr("ApiV1WorkspacesProjectsEnvsConfigConfigIdDeleteConfig"),
                     "204", Absent, Absent)))),
         "components", components)

\* The documents: with or without components, the operation under a visited
\* or an unvisited method, its id verbose (with both overrides, with one,
\* with none), clean, unknown or missing, a response under each code with a
\* bare, a complete or no schema, and likewise a request body.
EnrichDocs ==
    LET complete == JObj("type" :> JStr("object")
                         @@ "properties" :>
                                JObj("n" :> JObj("type" :> JStr("integer"))))
        bare_array == JObj("type" :> JStr("array") @@ "items" :> BareObject)
        custom == JObj("$ref" :> JStr("#/components/schemas/Custom"))
        components ==
            {Absent,
             EmptyDict,
             JObj("schemas" :> JObj(
                 "Custom" :> BareObject
              @@ "Workspace" :> JObj("type" :> JStr("string"))))}
        ids ==
            {JStr("ApiV1WorkspacesCreateWorkspace"),
             JStr("ApiV1WorkspacesListWorkspaces"),
             JStr("ApiV1AuthLoginLogin"),
             JStr("createWorkspace"),
             JStr("customOperation"),
             Absent}
        response_schemas ==
            {BareObject, bare_array, complete, custom,
             JObj("type" :> JStr("array") @@ "items" :> custom),
             JObj("type" :> JStr("string")),
             Absent}
        request_schemas == {BareObject, bare_array, complete, Absent}
    IN  {Document(c, m, id, code, r, q) :
            c \in components, m \in DocMethods, id \in ids,
            code \in DocCodes, r \in response_schemas,
            q \in request_schemas}

----------------------------------------------------------------------------
(* scripts/enrich-openapi.py: main *)

\* spec = json.load(f)
LoadSpec(doc) ==
    /\ enrich_pc = "idle"
    /\ enrich_pc' = "loaded"
    /\ spec_in' = doc
    /\ spec_arg' = doc
    /\ UNCHANGED <<enriched, enriched_again>>
    /\ UNCHANGED <<client_vars, docs_vars, example_vars>>

\* enriched = enrich(spec)
EnrichCall ==
    /\ enrich_pc = "loaded"
    /\ enrich_pc' = "enriched"
    /\ enriched' = Enrich(spec_arg).result
    /\ spec_arg' = Enrich(spec_arg).argument
    /\ UNCHANGED <<spec_in, enriched_again>>
    /\ UNCHANGED <<client_vars, docs_vars, example_vars>>

\* A second run of the script over its own output: enrich(enriched)
EnrichAgain ==
    /\ enrich_pc = "enriched"
    /\ enrich_pc' = "twice"
    /\ enriched_again' = Enrich(enriched).result
    /\ UNCHANGED <<spec_in, spec_arg, enriched>>
    /\ UNCHANGED <<client_vars, docs_vars, example_vars>>

NextEnrich ==
    \/ \E doc \in EnrichDocs : LoadSpec(doc)
    \/ EnrichCall
    \/ EnrichAgain

SpecEnrich == InitScripts /\ [][NextEnrich]_vars

----------------------------------------------------------------------------
(* scripts/gen-api-docs.py: main *)

SKIP_TAGS == {"untagged"}

\* TAG_META: tag -> <<slug, label>>
TAG_META ==
       "Auth" :> <<"authentication", "Authentication">>
    @@ "Workspaces" :> <<"workspaces", "Workspaces">>
    @@ "Organizations" :> <<"workspaces", "Workspaces">>
    @@ "Projects" :> <<"projects", "Projects">>
    @@ "Environments" :> <<"environments", "Environments">>
    @@ "Services" :> <<"services", "Services">>
    @@ "Applications" :> <<"services", "Services">>
    @@ "Builds" :> <<"builds", "Builds">>
    @@ "Images" :> <<"builds", "Builds">>
    @@ "Deploys" :> <<"deploys", "Deploys">>
    @@ "Releases" :> <<"deploys", "Deploys">>
    @@ "Deployments" :> <<"deploys", "Deploys">>
    @@ "ConfigVars" :> <<"config-vars", "Config Vars">>
    @@ "Configurations" :> <<"config-vars", "Config Vars">>
    @@ "Pipeline" :> <<"pipeline", "Pipeline">>
    @@ "Promotions" :> <<"promotions", "Promotions">>
    @@ "Observability" :> <<"observability", "Observability">>
    @@ "Teams" :> <<"teams", "Teams">>
    @@ "Integrations" :> <<"integrations", "Integrations">>

\* slug, label = TAG_META.get(tag, (tag.lower(), tag)), with tag.lower() for
\* the tags of the documents that TAG_META does not know.
TagMeta(tag) ==
    LET lower == "Guide" :> "guide" @@ "Index" :> "index" @@ "index" :> "index"
    IN  IF tag \in DOMAIN TAG_META THEN TAG_META[tag] ELSE <<lower[tag], tag>>

\* out_dir / f"{slug}.md": a file name is <<stem, suffix>>.
PageFile(tag) == <<TagMeta(tag)[1], ".md">>

IndexFile == <<"index", ".md">>

\* sorted(by_tag.items()): the tags of the documents in the order of
\* Python's string comparison.
SortedTags(tags) ==
    LET order == <<"Deployments", "Deploys", "Guide", "Index", "Projects",
                   "Releases", "index">>
    IN  SelectSeq(order, LAMBDA t : t \in tags)

\* The paths of the documents are "/api/v1" followed by one of these, or
\* "/health".
PathRests == {"/deploys", "/releases"}

\* operation.get("tags", ["untagged"])
TagsOf(operation) ==
    LET tags == DictGet(operation, "tags", JList(<<JStr("untagged")>>))
    IN  {tags.l[i].s : i \in DOMAIN tags.l}

\* The operations main looks at: <<method, path>> with the path under
\* /api/v1 and the key of the path item not "parameters" or "servers".
DocumentedOperations(spec) ==
    LET paths == DictGet(spec, "paths", EmptyDict)
    IN  UNION {{<<method, path>> :
                   method \in DOMAIN paths.o[path].o \ {"parameters", "servers"}} :
               path \in {p \in DOMAIN paths.o :
                            StartsWith(p, "/api/v1", PathRests)}}

\* by_tag after the grouping loop.  Each list of endpoints is held as a set:
\* the tag lists of the documents have no repeats, and main sorts each list
\* before it writes it.
GroupByTag(spec) ==
    LET ops == DocumentedOperations(spec)
        tagsAt(e) == TagsOf(spec.o["paths"].o[e[2]].o[e[1]]) \ SKIP_TAGS
    IN  [tag \in UNION {tagsAt(e) : e \in ops} |->
            {e \in ops : tag \in tagsAt(e)}]

\* A file of the output directory: whether its text contains
\* "Auto-generated from openapi.json", its title and the endpoints it lists.
FileContent(generated, title, endpoints) ==
    [generated |-> generated, title |-> title, endpoints |-> endpoints]

\* The page main writes for a tag.
Page(tag, endpoints) == FileContent(TRUE, TagMeta(tag)[2], endpoints)

\* The removal loop: of the *.md files, all but index.md that contain the
\* marker are unlinked.
RemoveStaleFiles(files) ==
    [name \in {f \in DOMAIN files :
                  \/ f[2] # ".md"
                  \/ f = IndexFile
                  \/ ~files[f].generated} |-> files[name]]

\* filepath.write_text(...)
WriteText(files, name, content) ==
    [f \in DOMAIN files \cup {name} |->
        IF f = name THEN content ELSE files[f]]

\* The output directories the script is run in: empty, or with hand-written
\* files (no marker) and pages of an earlier run (marker).
OutDirs ==
    LET hand(title) == FileContent(FALSE, title, {})
        stale(title) == FileContent(TRUE, title, {<<"get", "/api/v1/old">>})
    IN  {<<>>,
         IndexFile :> hand("API Overview")
           @@ <<"guide", ".md">> :> hand("Guide")
           @@ <<"deploys", ".md">> :> stale("Deploys")
           @@ <<"teams", ".md">> :> stale("Teams"),
         IndexFile :> stale("Index")
           @@ <<"notes", ".txt">> :> stale("Notes")
           @@ <<"projects", ".md">> :> hand("Projects")}

\* A document with two operations under /api/v1, a "parameters" entry next
\* to the first and an operation outside /api/v1.  Absent tags make an
\* operation without "tags".
TaggedDocument(tags1, tags2) ==
    LET operation(id, tags) ==
            With(JObj("operationId" :> JStr(id)), "tags", tags)
    IN  JObj("paths" :> JObj(
            "/api/v1/deploys" :>
                JObj("get" :> operation("listDeploys", tags1)
                     @@ "parameters" :> JList(<<>>))
         @@ "/api/v1/releases" :>
                JObj("post" :> operation("createRelease", tags2))
         @@ "/health" :>
                JObj("get" :> operation("health",
                                        JList(<<JStr("Deploys")>>)))))

TaggedDocs ==
    LET tag_lists ==
            {Absent,
             JList(<<>>),
             JList(<<JStr("untagged")>>),
             JList(<<JStr("Deploys")>>),
             JList(<<JStr("Releases")>>),
             JList(<<JStr("Deployments")>>),
             JList(<<JStr("Projects")>>),
             JList(<<JStr("Guide")>>),
             JList(<<JStr("index")>>),
             JList(<<JStr("Index")>>),
             JList(<<JStr("Deploys"), JStr("Releases")>>)}
    IN  {TaggedDocument(t1, t2) : t1 \in tag_lists, t2 \in tag_lists}

\* spec = json.load(f), and the output directory as main finds it
LoadDocs(doc, dir) ==
    /\ docs_pc = "idle"
    /\ docs_pc' = "loaded"
    /\ openapi' = doc
    /\ out_before' = dir
    /\ out_files' = dir
    /\ UNCHANGED <<by_tag, todo, count, written>>
    /\ UNCHANGED <<client_vars, enrich_vars, example_vars>>

\* The grouping loop
GroupEndpoints ==
    /\ docs_pc = "loaded"
    /\ docs_pc' = "grouped"
    /\ by_tag' = GroupByTag(openapi)
    /\ UNCHANGED <<openapi, out_before, out_files, todo, count, written>>
    /\ UNCHANGED <<client_vars, enrich_vars, example_vars>>

\* The removal loop, and the start of the writing loop
RemoveStale ==
    /\ docs_pc = "grouped"
    /\ docs_pc' = "writing"
    /\ out_files' = RemoveStaleFiles(out_files)
    /\ todo' = SortedTags(DOMAIN by_tag)
    /\ count' = 0
    /\ UNCHANGED <<openapi, out_before, by_tag, written>>
    /\ UNCHANGED <<client_vars, enrich_vars, example_vars>>

\* One round of the writing loop
WritePage ==
    /\ docs_pc = "writing"
    /\ todo # <<>>
    /\ LET tag == Head(todo)
       IN  /\ out_files' = WriteText(out_files, PageFile(tag),
                                     Page(tag, by_tag[tag]))
           /\ written' = written \cup {PageFile(tag)}
    /\ count' = count + 1
    /\ todo' = Tail(todo)
    /\ UNCHANGED <<docs_pc, openapi, out_before, by_tag>>
    /\ UNCHANGED <<client_vars, enrich_vars, example_vars>>

\* print(f"Generated {count} API reference pages in {out_dir}")
Report ==
    /\ docs_pc = "writing"
    /\ todo = <<>>
    /\ docs_pc' = "done"
    /\ UNCHANGED <<openapi, out_before, out_files, by_tag, todo, count,
                   written>>
    /\ UNCHANGED <<client_vars, enrich_vars, example_vars>>

NextDocs ==
    \/ \E doc \in TaggedDocs : \E dir \in OutDirs : LoadDocs(doc, dir)
    \/ GroupEndpoints
    \/ RemoveStale
    \/ WritePage
    \/ Report

SpecDocs == InitScripts /\ [][NextDocs]_vars

----------------------------------------------------------------------------
(* scripts/gen-api-docs.py: schema_to_json_example *)

\* A float of the generated example.
JFloat(x) == [s |-> "", b |-> FALSE, k |-> "float", n |-> x, o |-> <<>>, l |-> <<>>]

\* resolve_ref(spec, ref): the pointers of the documents have the form
\* "#/a/b/c"; a part that is missing reads as {} and so does all below it.
ResolveRef(spec, ref) ==
    LET pointers ==
            UNION {UNION {{<<a, b, c>> : c \in DOMAIN spec.o[a].o[b].o} :
                          b \in DOMAIN spec.o[a].o} :
                   a \in DOMAIN spec.o}
        hits == {p \in pointers :
                    ref = "#/" \o p[1] \o "/" \o p[2] \o "/" \o p[3]}
    IN  IF hits = {}
        THEN EmptyDict
        ELSE LET p == CHOOSE h \in hits : TRUE
             IN  spec.o[p[1]].o[p[2]].o[p[3]]

\* `if depth > 4` with the limit one higher.
TooDeepAt6(depth) == depth > 5

\* `if depth > 4`
TooDeep(depth) == depth > 4

\* The example of a schema that is neither an object nor an array.
LeafExample(schema) ==
    LET schema_type == DictGet(schema, "type", JStr("object"))
        format == DictGet(schema, "format", JNull)
        enum == DictGet(schema, "enum", JNull)
    IN  IF schema_type = JStr("string")
        THEN IF format = JStr("uuid") THEN JStr("uuid")
             ELSE IF format = JStr("date-time")
                  THEN JStr("2026-01-15T10:30:00Z")
             ELSE IF enum.k = "list" /\ enum.l # <<>> THEN enum.l[1]
             ELSE JStr("string")
        ELSE IF schema_type = JStr("integer") THEN JInt(0)
        ELSE IF schema_type = JStr("number") THEN JFloat(0)
        ELSE IF schema_type = JStr("boolean") THEN JBool(TRUE)
        ELSE JNull

\* One activation of schema_to_json_example.  phase is "called" before the
\* body has run, "open" while recursive calls are outstanding and
\* "returning" once the value is complete; pending holds the properties (or
\* "items") still to be visited, key the one being visited, resolved the
\* number of resolve_ref calls this activation made.
Frame(schema, depth, phase, keys, key, value, resolved) ==
    [schema |-> schema, depth |-> depth, phase |-> phase,
     pending |-> keys, key |-> key, value |-> value,
     resolved |-> resolved]

\* The body of schema_to_json_example up to its first recursive call or its
\* return.
RunBody(spec, f) ==
    IF TooDeep(f.depth)
    THEN Frame(f.schema, f.depth, "returning", {}, "", JStr("..."), 0)
    ELSE
    LET has_ref == Has(f.schema, "$ref")
        schema == IF has_ref
                  THEN ResolveRef(spec, f.schema.o["$ref"].s)
                  ELSE f.schema
        resolved == IF has_ref THEN 1 ELSE 0
        schema_type == DictGet(schema, "type", JStr("object"))
        props == DictGet(schema, "properties", EmptyDict)
    IN  IF Has(schema, "example")
        THEN Frame(schema, f.depth, "returning", {}, "",
                   schema.o["example"], resolved)
        ELSE IF schema_type = JStr("object")
        THEN IF DOMAIN props.o = {}
             THEN Frame(schema, f.depth, "returning", {}, "", EmptyDict,
                        resolved)
             ELSE Frame(schema, f.depth, "open", DOMAIN props.o, "",
                        EmptyDict, resolved)
        ELSE IF schema_type = JStr("array")
        THEN Frame(schema, f.depth, "open", {"items"}, "", JList(<<>>),
                   resolved)
        ELSE Frame(schema, f.depth, "returning", {}, "",
                   LeafExample(schema), resolved)

\* The schema the next recursive call of an open activation is made with.
ChildSchema(f, key) ==
    IF DictGet(f.schema, "type", JStr("object")) = JStr("array")
    THEN DictGet(f.schema, "items", EmptyDict)
    ELSE f.schema.o["properties"].o[key]

\* The activation after a recursive call came back with value v.
AfterReturn(f, v) ==
    LET array == DictGet(f.schema, "type", JStr("object")) = JStr("array")
        value == IF array THEN JList(<<v>>) ELSE DictSet(f.value, f.key, v)
        keys == f.pending \ {f.key}
    IN  Frame(f.schema, f.depth,
              IF keys = {} THEN "returning" ELSE "open",
              keys, "", value, f.resolved)

ArrayOf(schema) == JObj("type" :> JStr("array") @@ "items" :> schema)

Pointer(ref) == JObj("$ref" :> JStr(ref))

\* A document whose components point at themselves, at each other and at
\* other pointers.
CyclicSpec ==
    JObj("components" :> JObj("schemas" :> JObj(
        "Node" :> JObj("type" :> JStr("object")
                       @@ "properties" :> JObj(
                              "next" :> Pointer("#/components/schemas/Node")))
     @@ "Ping" :> ArrayOf(Pointer("#/components/schemas/Pong"))
     @@ "Pong" :> JObj("type" :> JStr("object")
                       @@ "properties" :> JObj(
                              "ping" :> Pointer("#/components/schemas/Ping")
                           @@ "id" :> JObj("type" :> JStr("string")
                                           @@ "format" :> JStr("uuid"))))
     @@ "Alias" :> Pointer("#/components/schemas/Node")
     @@ "Tree" :> JObj("properties" :> JObj(
                           "left" :> Pointer("#/components/schemas/Tree")
                        @@ "right" :> Pointer("#/components/schemas/Tree")))
     @@ "Leafy" :> JObj("type" :> JStr("object")
                        @@ "properties" :> JObj(
                               "at" :> JObj("type" :> JStr("string")
                                            @@ "format" :> JStr("date-time"))
                            @@ "kind" :> JObj("type" :> JStr("string")
                                              @@ "enum" :> JList(<<JStr("web"), JStr("worker")>>))
                            @@ "name" :> JObj("type" :> JStr("string"))
                            @@ "count" :> JObj("type" :> JStr("integer"))
                            @@ "ratio" :> JObj("type" :> JStr("number"))
                            @@ "ok" :> JObj("type" :> JStr("boolean"))
                            @@ "nothing" :> JObj("type" :> JStr("null"))
                            @@ "fixed" :> JObj("type" :> JStr("integer")
                                               @@ "example" :> JInt(42)))))))

ExampleSpecs == {CyclicSpec, EmptyDict}

\* Pointers into the document, to a missing component, arrays nested seven
\* deep without any pointer, and schemas without a type.
ExampleSchemas ==
    LET string == JObj("type" :> JStr("string"))
        nested3 == ArrayOf(ArrayOf(ArrayOf(string)))
    IN  {Pointer("#/components/schemas/Node"),
         Pointer("#/components/schemas/Ping"),
         Pointer("#/components/schemas/Pong"),
         Pointer("#/components/schemas/Alias"),
         Pointer("#/components/schemas/Tree"),
         Pointer("#/components/schemas/Leafy"),
         Pointer("#/components/schemas/Missing"),
         ArrayOf(ArrayOf(ArrayOf(ArrayOf(nested3)))),
         ArrayOf(EmptyDict),
         EmptyDict}

\* schema_to_json_example(spec, schema) is called
CallExample(spec, schema) ==
    /\ ex_pc = "idle"
    /\ ex_pc' = "running"
    /\ ex_spec' = spec
    /\ ex_schema' = schema
    /\ ex_stack' = <<Frame(schema, 0, "called", {}, "", JNull, 0)>>
    /\ UNCHANGED <<ex_result, ex_log>>
    /\ UNCHANGED <<client_vars, enrich_vars, docs_vars>>

\* The innermost activation runs its body
EvalBody ==
    /\ ex_pc = "running"
    /\ ex_stack[Len(ex_stack)].phase = "called"
    /\ ex_stack' = [ex_stack EXCEPT ![Len(ex_stack)] = RunBody(ex_spec, @)]
    /\ UNCHANGED <<ex_pc, ex_spec, ex_schema, ex_result, ex_log>>
    /\ UNCHANGED <<client_vars, enrich_vars, docs_vars>>

\* The innermost activation calls schema_to_json_example(spec, prop, depth + 1)
\* for the next property or for the items.  The properties are taken in some
\* fixed order; the value built does not depend on it.
Descend ==
    /\ ex_pc = "running"
    /\ ex_stack[Len(ex_stack)].phase = "open"
    /\ LET f == ex_stack[Len(ex_stack)]
           key == CHOOSE q \in f.pending : TRUE
       IN  ex_stack' = Append([ex_stack EXCEPT ![Len(ex_stack)].key = key],
                              Frame(ChildSchema(f, key), f.depth + 1,
                                    "called", {}, "", JNull, 0))
    /\ UNCHANGED <<ex_pc, ex_spec, ex_schema, ex_result, ex_log>>
    /\ UNCHANGED <<client_vars, enrich_vars, docs_vars>>

\* The innermost activation returns its value to its caller
Return ==
    /\ ex_pc = "running"
    /\ ex_stack[Len(ex_stack)].phase = "returning"
    /\ LET f == ex_stack[Len(ex_stack)]
           rest == SubSeq(ex_stack, 1, Len(ex_stack) - 1)
       IN  /\ ex_log' = ex_log \cup
                   {[depth |-> f.depth, resolved |-> f.resolved,
                     placeholder |-> f.value = JStr("...")]}
           /\ IF rest = <<>>
              THEN /\ ex_pc' = "done"
                   /\ ex_result' = f.value
                   /\ ex_stack' = <<>>
              ELSE /\ ex_stack' = [rest EXCEPT ![Len(rest)] =
                                       AfterReturn(@, f.value)]
                   /\ UNCHANGED <<ex_pc, ex_result>>
    /\ UNCHANGED <<ex_spec, ex_schema>>
    /\ UNCHANGED <<client_vars, enrich_vars, docs_vars>>

NextExample ==
    \/ \E spec \in ExampleSpecs : \E schema \in ExampleSchemas :
           CallExample(spec, schema)
    \/ EvalBody
    \/ Descend
    \/ Return

SpecExample == InitScripts /\ [][NextExample]_vars

\* A call that has started keeps running: nothing else is scheduled.
SpecExampleFair == SpecExample /\ WF_vars(NextExample)

----------------------------------------------------------------------------
(* Properties of scripts/enrich-openapi.py *)

\* The operations of a document: <<path, key of the path item>> pairs.
OperationsOf(doc) ==
    LET paths == DictGet(doc, "paths", EmptyDict)
    IN  {<<p, m>> \in (DOMAIN paths.o) \X (DocMethods \cup EnrichMethods) :
            Has(paths.o[p], m)}

OperationAt(doc, pm) == doc.o["paths"].o[pm[1]].o[pm[2]]

OperationIdAt(doc, pm) == DictGet(OperationAt(doc, pm), "operationId", Absent)

Verbose(id) == id.k = "string" /\ id.s \in DOMAIN OPERATION_ID_MAP

\* The JSON schema of a response or request body, Absent when there is none.
SchemaIn(holder) ==
    DictGet(DictGet(DictGet(holder, "content", EmptyDict),
                    "application/json", EmptyDict), "schema", Absent)

ResponseSchemaAt(doc, pm, code) ==
    SchemaIn(DictGet(DictGet(OperationAt(doc, pm), "responses", EmptyDict),
                     code, EmptyDict))

RequestSchemaAt(doc, pm) ==
    SchemaIn(DictGet(OperationAt(doc, pm), "requestBody", EmptyDict))

EnrichDone == enrich_pc \in {"enriched", "twice"}

\* C23: enrich(spec) leaves the caller's document equal to its value before
\* the call; the operationId and schema changes are in the returned document
\* only.
C23_ArgumentUnmodified ==
    EnrichDone =>
        /\ spec_arg = spec_in
        /\ enriched = EnrichSteps(spec_in)

C23_Witness ==
    /\ enrich_pc = "enriched"
    /\ enriched # spec_in
    /\ \E pm \in OperationsOf(spec_in) :
           /\ OperationIdAt(spec_in, pm) = JStr("ApiV1WorkspacesCreateWorkspace")
           /\ OperationIdAt(enriched, pm) = JStr("createWorkspace")
           /\ OperationIdAt(spec_arg, pm) = JStr("ApiV1WorkspacesCreateWorkspace")
           /\ ResponseSchemaAt(spec_arg, pm, "200") = BareObject
           /\ ResponseSchemaAt(enriched, pm, "200") = _ref("Workspace")

\* C24: after enrich(spec) no operation of the output, under any path and
\* any HTTP method, has an operationId that is a key of OPERATION_ID_MAP: a
\* verbose id has become its clean name, and an id that is not in the map is
\* unchanged.
C24_NoVerboseIdLeft ==
    EnrichDone =>
        \A pm \in OperationsOf(spec_in) :
            LET old == OperationIdAt(spec_in, pm)
                new == OperationIdAt(enriched, pm)
            IN  /\ ~Verbose(new)
                /\ Verbose(old) => new = JStr(OPERATION_ID_MAP[old.s])
                /\ ~Verbose(old) => new = old

\* C25: a schema is replaced only where the existing one is bare, only in a
\* response whose code starts with "2" or in the request body, and only with
\* the non-None override of the operation's remapped id; every other schema
\* of the document is unchanged.
C25_OnlyBareSchemasReplaced ==
    EnrichDone =>
        \A pm \in OperationsOf(spec_in) :
            LET old_id == OperationIdAt(spec_in, pm)
                mapped == Verbose(old_id) /\ pm[2] \in EnrichMethods
                overrides == IF mapped
                             THEN SCHEMA_MAP[OPERATION_ID_MAP[old_id.s]]
                             ELSE <<JNull, JNull>>
                old_request == RequestSchemaAt(spec_in, pm)
                new_request == RequestSchemaAt(enriched, pm)
            IN  /\ \A code \in DocCodes \cup {"204"} :
                       LET old == ResponseSchemaAt(spec_in, pm, code)
                           new == ResponseSchemaAt(enriched, pm, code)
                           bare ==
                               \/ old = BareObject
                               \/ old = JObj("type" :> JStr("array")
                                             @@ "items" :> BareObject)
                       IN  IF /\ mapped
                              /\ overrides[1] # JNull
                              /\ code \in {"200", "201", "204"}
                              /\ bare
                           THEN new = overrides[1]
                           ELSE new = old
                /\ IF mapped /\ overrides[2] # JNull /\ old_request = BareObject
                   THEN new_request = overrides[2]
                   ELSE new_request = old_request

C25_Witness ==
    /\ enrich_pc = "enriched"
    /\ \E pm \in OperationsOf(spec_in) :
           /\ OperationIdAt(spec_in, pm) = JStr("ApiV1WorkspacesCreateWorkspace")
           /\ pm[2] = "post"
           /\ ResponseSchemaAt(spec_in, pm, "201") # Absent
           /\ Has(ResponseSchemaAt(spec_in, pm, "201"), "properties")
           /\ ResponseSchemaAt(enriched, pm, "201")
                  = ResponseSchemaAt(spec_in, pm, "201")
           /\ RequestSchemaAt(spec_in, pm) = BareObject
           /\ RequestSchemaAt(enriched, pm) = _ref("CreateWorkspaceRequest")

\* C27: enrich(enrich(s)) equals enrich(s).
C27_Idempotent ==
    enrich_pc = "twice" => enriched_again = enriched

C27_Witness ==
    /\ enrich_pc = "twice"
    /\ enriched # spec_in
    /\ \E pm \in OperationsOf(spec_in) :
           /\ pm[2] = "get"
           /\ OperationIdAt(spec_in, pm) = JStr("ApiV1WorkspacesListWorkspaces")
           /\ OperationIdAt(enriched_again, pm) = JStr("listWorkspaces")

\* Every "$ref" string inside a JSON value.
RECURSIVE RefsIn(_)
RefsIn(v) ==
    IF v.k = "object"
    THEN UNION {IF key = "$ref" /\ v.o[key].k = "string"
                THEN {v.o[key].s}
                ELSE RefsIn(v.o[key]) : key \in DOMAIN v.o}
    ELSE IF v.k = "list"
    THEN UNION {RefsIn(v.l[i]) : i \in DOMAIN v.l}
    ELSE {}

\* The references of the injected definitions and of the overrides.
TableRefs ==
    UNION ({RefsIn(SCHEMAS[name]) : name \in DOMAIN SCHEMAS}
           \cup {RefsIn(SCHEMA_MAP[id][1]) \cup RefsIn(SCHEMA_MAP[id][2]) :
                    id \in DOMAIN SCHEMA_MAP})

\* The pointers that resolve in a document: one per schema of
\* components.schemas.
Resolvable(doc) ==
    {"#/components/schemas/" \o name :
        name \in DOMAIN DictGet(DictGet(doc, "components", EmptyDict),
                                "schemas", EmptyDict).o}

\* C28: every $ref of the injected SCHEMAS and of the overrides of
\* SCHEMA_MAP names a schema of the output's components.schemas, and every
\* clean operationId of OPERATION_ID_MAP has an entry in SCHEMA_MAP.
C28_NoDanglingRef ==
    EnrichDone =>
        /\ TableRefs \subseteq Resolvable(enriched)
        /\ \A old \in DOMAIN OPERATION_ID_MAP :
               OPERATION_ID_MAP[old] \in DOMAIN SCHEMA_MAP

C28_Witness ==
    /\ enrich_pc = "enriched"
    /\ ~Has(spec_in, "components")
    /\ "#/components/schemas/StageStatus" \in TableRefs
    /\ "#/components/schemas/CreateWorkspaceRequest" \in TableRefs
    /\ Cardinality(TableRefs) > 20
    /\ TableRefs \subseteq Resolvable(enriched)

----------------------------------------------------------------------------
(* Properties of scripts/gen-api-docs.py *)

\* C26: after a run, index.md and every .md file of the output directory
\* without the marker still exist with the content they had before the run,
\* whatever the document (a tag whose slug is the name of such a file
\* included).
C26_HandWrittenKept ==
    docs_pc = "done" =>
        \A f \in DOMAIN out_before :
            (f[2] = ".md" /\ (f = IndexFile \/ ~out_before[f].generated)) =>
                /\ f \in DOMAIN out_files
                /\ out_files[f] = out_before[f]

\* C29: every operation under /api/v1 with a tag other than "untagged" is in
\* the page of that tag's slug, also when several tags share the slug, and
\* the reported count is the number of page files written.
C29_PagesHoldAllEndpoints ==
    docs_pc = "done" =>
        /\ \A e \in DocumentedOperations(openapi) :
               \A tag \in TagsOf(openapi.o["paths"].o[e[2]].o[e[1]]) \ SKIP_TAGS :
                   /\ PageFile(tag) \in DOMAIN out_files
                   /\ e \in out_files[PageFile(tag)].endpoints
        /\ count = Cardinality(written)

\* C30: schema_to_json_example terminates for every schema, cyclic and
\* missing pointers included: no activation is deeper than depth 5, an
\* activation resolves a $ref at most once, and an activation past depth 4
\* returns "...".
C30_ExampleTerminates ==
    /\ [](/\ \A i \in DOMAIN ex_stack :
                 /\ ex_stack[i].depth = i - 1
                 /\ ex_stack[i].depth <= 5
                 /\ ex_stack[i].resolved <= 1
          /\ \A e \in ex_log :
                 /\ e.depth <= 5
                 /\ e.resolved <= 1
                 /\ e.depth > 4 => e.placeholder)
    /\ <>(ex_pc = "done")

C30_Witness ==
    /\ ex_pc = "done"
    /\ ex_spec = CyclicSpec
    /\ ex_schema = Pointer("#/components/schemas/Ping")
    /\ \E e \in ex_log : e.depth = 5 /\ e.placeholder
    /\ \E e \in ex_log : e.depth = 4 /\ e.resolved = 1 /\ ~e.placeholder
    /\ ex_result.k = "list"

============================================================================
